---- MODULE Spec2Model ----
(***************************************************************************)
(* Model of the import-map synchronization gateway of @collagejs/vite-aim  *)
(* (importMapPlugin): the receiver endpoint, the readiness gate and the    *)
(* request-blocking middleware, with the JavaScript values they handle.    *)
(*                                                                         *)
(* Strings are sequences of one-character strings, so that includes,       *)
(* startsWith, slice and the default sort order are computed and not       *)
(* assumed.  Request bodies are sequences of JSON tokens; JSON.parse and   *)
(* JSON.stringify are computed on them.                                    *)
(***************************************************************************)
EXTENDS Integers, Sequences, FiniteSets, Bags, TLC

(***************************************************************************)
(* Strings                                                                 *)
(***************************************************************************)

\* The characters used, in increasing UTF-16 code unit order.
Ascii ==
    << " ", "-", ".", "/", "0", "1", "2", "3", "4", "5", "6", "7", "8", "9",
       ":", "@", "I", "M", "O", "S", "[", "]", "_", "a", "b", "c", "d", "e",
       "f", "g", "h", "i", "j", "k", "l", "m", "n", "o", "p", "q", "r", "s", "t", "u", "v", "w", "x",
       "y", "z" >>

CharCode(c) == CHOOSE i \in 1..Len(Ascii) : Ascii[i] = c

\* a < b in the order String.prototype comparison (and the default sort) uses.
RECURSIVE StrLess(_, _)
StrLess(a, b) ==
    IF b = <<>> THEN FALSE
    ELSE IF a = <<>> THEN TRUE
    ELSE IF Head(a) = Head(b) THEN StrLess(Tail(a), Tail(b))
    ELSE CharCode(Head(a)) < CharCode(Head(b))

\* String.prototype.startsWith
StartsWith(s, p) == Len(p) <= Len(s) /\ SubSeq(s, 1, Len(p)) = p

\* String.prototype.endsWith
EndsWith(s, p) == Len(p) <= Len(s) /\ SubSeq(s, Len(s) - Len(p) + 1, Len(s)) = p

\* String.prototype.includes
Includes(s, p) == \E i \in 0..(Len(s) - Len(p)) : SubSeq(s, i + 1, i + Len(p)) = p

\* String.prototype.slice(n) for 0 <= n
Slice(s, n) == SubSeq(s, n + 1, Len(s))

s_imports == << "i", "m", "p", "o", "r", "t", "s" >>
s_scopes == << "s", "c", "o", "p", "e", "s" >>
s_integrity == << "i", "n", "t", "e", "g", "r", "i", "t", "y" >>
s_toString == << "t", "o", "S", "t", "r", "i", "n", "g" >>
s_error == << "e", "r", "r", "o", "r" >>
s_success == << "s", "u", "c", "c", "e", "s", "s" >>
s_localhost == << "l", "o", "c", "a", "l", "h", "o", "s", "t" >>
s_127 == << "1", "2", "7", ".", "0", ".", "0", ".", "1" >>
s_v6loop == << "[", ":", ":", "1", "]" >>

(***************************************************************************)
(* JavaScript values as JSON.parse produces them.  t is the type tag, s    *)
(* the text of a string, number or boolean, e the own enumerable           *)
(* properties of an object or array in Object.entries order (an array's    *)
(* keys are its indices).  Object keys are never integer-like here, so     *)
(* Object.entries order is insertion order.                                *)
(***************************************************************************)
s_null == << "n", "u", "l", "l" >>
s_true == << "t", "r", "u", "e" >>
s_false == << "f", "a", "l", "s", "e" >>

JUndefined == [t |-> "undefined", s |-> <<>>, e |-> <<>>]
JNull == [t |-> "null", s |-> <<>>, e |-> <<>>]
JBool(b) == [t |-> "bool", s |-> IF b THEN s_true ELSE s_false, e |-> <<>>]
JNum(digits) == [t |-> "num", s |-> digits, e |-> <<>>]
JStr(chars) == [t |-> "str", s |-> chars, e |-> <<>>]
JObj(entries) == [t |-> "obj", s |-> <<>>, e |-> entries]
JArr(entries) == [t |-> "arr", s |-> <<>>, e |-> entries]

Entry(key, val) == [k |-> key, v |-> val]

Digits == << "0", "1", "2", "3", "4", "5", "6", "7", "8", "9" >>

\* The property key of array index i (0 <= i <= 9).
IndexKey(i) == << Digits[i + 1] >>

\* obj[key] = val on an ordinary object: an existing key keeps its place.
ObjSet(entries, key, val) ==
    IF \E j \in 1..Len(entries) : entries[j].k = key
    THEN [j \in 1..Len(entries) |->
            IF entries[j].k = key THEN Entry(key, val) ELSE entries[j]]
    ELSE Append(entries, Entry(key, val))

\* typeof v === 'object'
TypeofObject(v) == v.t \in {"obj", "arr", "null"}

\* ToBoolean(v)
Truthy(v) ==
    CASE v.t \in {"undefined", "null"} -> FALSE
      [] v.t = "bool" -> v.s = s_true
      [] v.t = "num" -> v.s # << "0" >>
      [] v.t = "str" -> v.s # <<>>
      [] OTHER -> TRUE

\* Object.entries(v) for v neither null nor undefined.
ObjectEntries(v) ==
    CASE v.t \in {"obj", "arr"} -> v.e
      [] v.t = "str" -> [j \in 1..Len(v.s) |-> Entry(IndexKey(j - 1), JStr(<< v.s[j] >>))]
      [] OTHER -> <<>>

\* Object.keys(v) for v neither null nor undefined.
ObjectKeys(v) == [j \in 1..Len(ObjectEntries(v)) |-> ObjectEntries(v)[j].k]

\* v[key] for an own property key that is no member of Object.prototype.
GetProp(v, key) ==
    IF \E j \in 1..Len(ObjectEntries(v)) : ObjectEntries(v)[j].k = key
    THEN ObjectEntries(v)[CHOOSE j \in 1..Len(ObjectEntries(v)) : ObjectEntries(v)[j].k = key].v
    ELSE JUndefined

\* a || b
Or(a, b) == IF Truthy(a) THEN a ELSE b

\* Array.prototype.sort() with the default comparator, on strings.
RECURSIVE InsertSorted(_, _)
InsertSorted(sorted, x) ==
    IF sorted = <<>> THEN << x >>
    ELSE IF StrLess(x, Head(sorted)) THEN << x >> \o sorted
    ELSE << Head(sorted) >> \o InsertSorted(Tail(sorted), x)

RECURSIVE Sort(_)
Sort(keys) ==
    IF keys = <<>> THEN <<>>
    ELSE InsertSorted(Sort(SubSeq(keys, 1, Len(keys) - 1)), keys[Len(keys)])

\* Whether String(v) (and "" + v) throws a TypeError: an object with an own
\* toString property that is no function cannot be converted to a primitive;
\* an array joins the conversions of its elements.
RECURSIVE ToStringThrows(_)
ToStringThrows(v) ==
    CASE v.t = "obj" -> \E j \in 1..Len(v.e) : v.e[j].k = s_toString
      [] v.t = "arr" -> \E j \in 1..Len(v.e) : ToStringThrows(v.e[j].v)
      [] OTHER -> FALSE

(***************************************************************************)
(* JSON text as a sequence of tokens: punctuation, string literals,        *)
(* number literals and the literals null, true, false.                     *)
(***************************************************************************)
Tok(kind, chars) == [k |-> kind, v |-> chars]
LBrace == Tok("p", << "{" >>)
RBrace == Tok("p", << "}" >>)
LBrack == Tok("p", << "[" >>)
RBrack == Tok("p", << "]" >>)
Colon == Tok("p", << ":" >>)
Comma == Tok("p", << "," >>)
TStr(chars) == Tok("s", chars)
TNum(digits) == Tok("n", digits)
TNull == Tok("l", s_null)
TTrue == Tok("l", s_true)
TFalse == Tok("l", s_false)

ParseFail == [ok |-> FALSE, v |-> JNull, i |-> 0]
ParseOk(val, next) == [ok |-> TRUE, v |-> val, i |-> next]

RECURSIVE ParseValue(_, _)
RECURSIVE ParseMembers(_, _, _)
RECURSIVE ParseElements(_, _, _)

\* The JSON value starting at token i of ts, and the index after it.
ParseValue(ts, i) ==
    IF i > Len(ts) THEN ParseFail
    ELSE CASE ts[i].k = "s" -> ParseOk(JStr(ts[i].v), i + 1)
           [] ts[i].k = "n" -> ParseOk(JNum(ts[i].v), i + 1)
           [] ts[i] = TNull -> ParseOk(JNull, i + 1)
           [] ts[i] = TTrue -> ParseOk(JBool(TRUE), i + 1)
           [] ts[i] = TFalse -> ParseOk(JBool(FALSE), i + 1)
           [] ts[i] = LBrace ->
                IF i + 1 <= Len(ts) /\ ts[i + 1] = RBrace
                THEN ParseOk(JObj(<<>>), i + 2)
                ELSE ParseMembers(ts, i + 1, <<>>)
           [] ts[i] = LBrack ->
                IF i + 1 <= Len(ts) /\ ts[i + 1] = RBrack
                THEN ParseOk(JArr(<<>>), i + 2)
                ELSE ParseElements(ts, i + 1, <<>>)
           [] OTHER -> ParseFail

\* The members of an object from token i on, up to its closing brace.
ParseMembers(ts, i, acc) ==
    IF i + 1 > Len(ts) \/ ts[i].k # "s" \/ ts[i + 1] # Colon THEN ParseFail
    ELSE LET r == ParseValue(ts, i + 2)
             members == ObjSet(acc, ts[i].v, r.v)
         IN  IF ~r.ok \/ r.i > Len(ts) THEN ParseFail
             ELSE IF ts[r.i] = Comma THEN ParseMembers(ts, r.i + 1, members)
             ELSE IF ts[r.i] = RBrace THEN ParseOk(JObj(members), r.i + 1)
             ELSE ParseFail

\* The elements of an array from token i on, up to its closing bracket.
ParseElements(ts, i, acc) ==
    LET r == ParseValue(ts, i)
        elements == Append(acc, Entry(IndexKey(Len(acc)), r.v))
    IN  IF ~r.ok \/ r.i > Len(ts) THEN ParseFail
        ELSE IF ts[r.i] = Comma THEN ParseElements(ts, r.i + 1, elements)
        ELSE IF ts[r.i] = RBrack THEN ParseOk(JArr(elements), r.i + 1)
        ELSE ParseFail

\* JSON.parse(text): ok is FALSE where it throws a SyntaxError.
JsonParse(ts) ==
    LET r == ParseValue(ts, 1)
    IN  IF r.ok /\ r.i = Len(ts) + 1 THEN r ELSE ParseFail

RECURSIVE JsonStringify(_)
RECURSIVE StringifyEntries(_, _)

\* JSON.stringify(v) for a value without undefined members.
JsonStringify(v) ==
    CASE v.t = "str" -> << TStr(v.s) >>
      [] v.t = "num" -> << TNum(v.s) >>
      [] v.t = "bool" -> << Tok("l", v.s) >>
      [] v.t = "obj" -> << LBrace >> \o StringifyEntries(v.e, TRUE) \o << RBrace >>
      [] v.t = "arr" -> << LBrack >> \o StringifyEntries(v.e, FALSE) \o << RBrack >>
      [] OTHER -> << TNull >>

StringifyEntries(entries, withKeys) ==
    IF entries = <<>> THEN <<>>
    ELSE (IF withKeys THEN << TStr(Head(entries).k), Colon >> ELSE <<>>)
         \o JsonStringify(Head(entries).v)
         \o (IF Len(entries) > 1 THEN << Comma >> ELSE <<>>)
         \o StringifyEntries(Tail(entries), withKeys)

(***************************************************************************)
(* Plug-in options, resolved configuration and derived paths               *)
(***************************************************************************)
s_slash == << "/" >>
s_base_app == << "/", "a", "p", "p", "/" >>
s_example_com == << "e", "x", "a", "m", "p", "l", "e", ".", "c", "o", "m" >>

\* options.importMapEndpoint (default)
importMapEndpoint ==
    << "/", "_", "_", "c", "u", "r", "r", "e", "n", "t", "_", "i", "m", "p",
       "o", "r", "t", "_", "m", "a", "p" >>

\* options.importMapSenderEndpoint (default)
importMapSenderEndpoint ==
    << "/", "_", "_", "c", "o", "l", "l", "a", "g", "e", "j", "s", "-", "i",
       "m", "p", "o", "r", "t", "-", "m", "a", "p", "-", "s", "e", "n", "d",
       "e", "r", ".", "j", "s" >>

s_index_html == << "/", "i", "n", "d", "e", "x", ".", "h", "t", "m", "l" >>
s_vite_client == << "/", "@", "v", "i", "t", "e", "/", "c", "l", "i", "e", "n", "t" >>

\* String.prototype.trim() (the only white space used is the space)
RECURSIVE Trim(_)
Trim(s) ==
    IF s # <<>> /\ Head(s) = " " THEN Trim(Tail(s))
    ELSE IF s # <<>> /\ s[Len(s)] = " " THEN Trim(SubSeq(s, 1, Len(s) - 1))
    ELSE s

\* s.replace(/\/+$/g, '')
RECURSIVE StripTrailingSlashes(_)
StripTrailingSlashes(s) ==
    IF s # <<>> /\ s[Len(s)] = "/" THEN StripTrailingSlashes(SubSeq(s, 1, Len(s) - 1))
    ELSE s

\* s.replace(/^\/+|\/+$/g, '')
RECURSIVE StripSlashes(_)
StripSlashes(s) ==
    IF s # <<>> /\ Head(s) = "/" THEN StripSlashes(Tail(s))
    ELSE StripTrailingSlashes(s)

\* Array.prototype.join(sep)
RECURSIVE Join(_, _)
Join(parts, sep) ==
    IF parts = <<>> THEN <<>>
    ELSE IF Len(parts) = 1 THEN parts[1]
    ELSE parts[1] \o sep \o Join(Tail(parts), sep)

\* joinPaths(...paths), for the resolved config.base
joinPaths(base, paths) ==
    LET all == << base >> \o paths
        mapped == [j \in 1..Len(all) |->
                     IF j = 1 THEN StripTrailingSlashes(Trim(all[j]))
                     ELSE StripSlashes(Trim(all[j]))]
    IN  Join(SelectSeq(mapped, LAMBDA x : Len(x) > 0), s_slash)

\* importMapEndpointUrl, as configResolved sets it
importMapEndpointUrl(base) == joinPaths(base, << importMapEndpoint >>)

\* importMapSenderUrl, as configResolved sets it
importMapSenderUrl(base) == joinPaths(base, << importMapSenderEndpoint >>)

\* stockPathExceptions, as configureServer builds it
stockPathExceptions(base, isRoot) ==
    << joinPaths(base, << s_index_html >>),
       joinPaths(base, << s_slash >>),
       joinPaths(base, << s_vite_client >>) >>
    \o (IF isRoot THEN << joinPaths(base, << importMapSenderEndpoint >>) >> ELSE <<>>)

\* Array.prototype.includes
SeqIncludes(seq, x) == \E j \in 1..Len(seq) : seq[j] = x

\* devServer.middlewares.use(route, fn): the route is stored without one
\* trailing slash, and a layer handles a request when the request path starts
\* with the route and the character after it, if any, is "/" or ".".  Paths
\* here have no query string and no upper-case letters.
RouteMatches(route, url) ==
    LET stored == IF route # <<>> /\ route[Len(route)] = "/"
                  THEN SubSeq(route, 1, Len(route) - 1) ELSE route
        path == IF url = <<>> THEN s_slash ELSE url
    IN  /\ StartsWith(path, stored)
        /\ Len(path) > Len(stored) => path[Len(stored) + 1] \in {"/", "."}

(***************************************************************************)
(* The receiver's checks                                                   *)
(***************************************************************************)

\* isOriginAllowed(origin); origin is a string value or undefined
isOriginAllowed(origin, allowedOrigins) ==
    IF ~Truthy(origin) THEN FALSE
    ELSE IF \/ Includes(origin.s, s_localhost)
            \/ Includes(origin.s, s_127)
            \/ Includes(origin.s, s_v6loop)
         THEN TRUE
    ELSE \E j \in 1..Len(allowedOrigins) : Includes(origin.s, allowedOrigins[j])

\* validateIm without the test of the number of keys
validateImAnyLength(im) ==
    IF ~TypeofObject(im) \/ im.t = "null" THEN FALSE
    ELSE LET keys == Sort(ObjectKeys(im))
         IN  Len(keys) >= 2 /\ keys[1] = s_imports /\ keys[2] = s_scopes

\* validateIm(im): TRUE where it returns, FALSE where it throws
validateIm(im) ==
    IF ~TypeofObject(im) \/ im.t = "null" THEN FALSE
    ELSE LET keys == Sort(ObjectKeys(im))
         IN  ~(Len(keys) # 2 \/ keys[1] # s_imports \/ keys[2] # s_scopes)

(***************************************************************************)
(* State                                                                   *)
(***************************************************************************)

\* The number of requests the server holds at one time.
MaxInFlight == 3

VARIABLES
    options,              \* the plug-in options: isRoot, allowedOrigins, pathExceptions
    config,               \* the resolved Vite configuration: base, command
    importMap,            \* let importMap: ImportMap
    importMapReadyEvent,  \* the ManualResetEvent: "Unset" or "Set"
    inflight,             \* the requests being handled (a bag)
    out,                  \* what the last step did with a request
    probe,                \* the input and the result of a function or hook applied alone
    externalizedModules,  \* const externalizedModules = new Set<string>()
    cssMap,               \* const cssMap: Record<string, string[]> = {}
    meta,                 \* the chunks of the build, as renderChunk is given them
    browser               \* the page the sender script runs in and the POSTs it has made

vars ==
    << options, config, importMap, importMapReadyEvent, inflight, out, probe,
       externalizedModules, cssMap, meta, browser >>

\* let importMap: ImportMap = { imports: {} }
InitialImportMap == JObj(<< Entry(s_imports, JObj(<<>>)) >>)

\* const cssMap: Record<string, string[]> = {}
NoCssMap == << >>

\* No build is under way.
NoMeta == [chunks |-> << >>, rendered |-> {}, failed |-> {}]

\* No page has loaded the sender script.
NoBrowser ==
    [scripts |-> << >>, origin |-> << >>, isRoot |-> TRUE, postEndpoint |-> << >>,
     ran |-> FALSE, posts |-> << >>]

(***************************************************************************)
(* The requests a client sends                                             *)
(***************************************************************************)
o_local == << "h", "t", "t", "p", ":", "/", "/", "l", "o", "c", "a", "l", "h", "o", "s", "t", ":", "5" >>
o_evil == << "h", "t", "t", "p", ":", "/", "/", "e", "v", "i", "l", ".", "e", "x", "a", "m", "p", "l", "e" >>
o_fake ==
    << "h", "t", "t", "p", ":", "/", "/", "l", "o", "c", "a", "l", "h", "o",
       "s", "t", ".", "e", "v", "i", "l", ".", "e", "x", "a", "m", "p", "l", "e" >>
o_app ==
    << "h", "t", "t", "p", ":", "/", "/", "a", "p", "p", ".", "e", "x", "a",
       "m", "p", "l", "e", ".", "c", "o", "m" >>

u_endpoint_root == importMapEndpoint
u_endpoint_app == << "/", "a", "p", "p" >> \o importMapEndpoint
u_module == << "/", "a", "p", "p", "/", "m", "a", "i", "n", ".", "j", "s" >>
u_index == << "/", "a", "p", "p" >> \o s_index_html

k_a == << "@", "a" >>
k_b == << "@", "b" >>
v_u1 == << "u", "1" >>
v_u2 == << "u", "2" >>

\* {"imports":{"@a":"u1"},"scopes":{}} in two chunks
BodyA ==
    << << LBrace, TStr(s_imports), Colon, LBrace, TStr(k_a), Colon, TStr(v_u1) >>,
       << RBrace, Comma, TStr(s_scopes), Colon, LBrace, RBrace, RBrace >> >>

\* {"imports":{"@b":"u2","@a":"u2"},"scopes":{}} in two chunks
BodyB ==
    << << LBrace, TStr(s_imports), Colon, LBrace, TStr(k_b), Colon, TStr(v_u2) >>,
       << Comma, TStr(k_a), Colon, TStr(v_u2), RBrace, Comma, TStr(s_scopes), Colon,
          LBrace, RBrace, RBrace >> >>

\* {"imports":{}} in one chunk
BodyNoScopes == << << LBrace, TStr(s_imports), Colon, LBrace, RBrace, RBrace >> >>

\* {"imports" (a truncated text) in one chunk
BodyTruncated == << << LBrace, TStr(s_imports) >> >>

\* the empty body
BodyEmpty == <<>>

\* {"imports":{"@a":{"toString":1}},"scopes":{}} in one chunk
BodyToString ==
    << << LBrace, TStr(s_imports), Colon, LBrace, TStr(k_a), Colon,
          LBrace, TStr(s_toString), Colon, TNum(<< "1" >>), RBrace,
          RBrace, Comma, TStr(s_scopes), Colon, LBrace, RBrace, RBrace >> >>

\* The bodies a client sends, each as the chunks it arrives in.
Bodies == { BodyA, BodyB, BodyNoScopes, BodyTruncated, BodyEmpty, BodyToString }

\* The Origin and Referer headers of a request.
HeaderPairs ==
    { << JStr(o_local), JUndefined >>,
      << JStr(o_evil), JUndefined >>,
      << JStr(o_fake), JUndefined >>,
      << JStr(o_app), JUndefined >>,
      << JUndefined, JUndefined >>,
      << JUndefined, JStr(o_local) >>,
      << JStr(o_evil), JStr(o_local) >>,
      << JStr(<<>>), JStr(o_local) >> }

Request(method, url, origin, referer) ==
    [method |-> method, url |-> url, origin |-> origin, referer |-> referer]

NoRequest == Request("", <<>>, JUndefined, JUndefined)

\* POSTs to the endpoint under base /app/ with every header pair, one POST to
\* the endpoint under base /, and requests of the other methods to both.
Requests ==
    { Request("POST", u_endpoint_app, h[1], h[2]) : h \in HeaderPairs }
    \cup { Request("POST", u_endpoint_root, JStr(o_local), JUndefined) }
    \cup { Request("GET", url, JUndefined, JUndefined) :
             url \in { u_endpoint_app, u_module, u_index } }
    \cup { Request(m, url, JUndefined, JUndefined) :
             m \in { "OPTIONS", "PUT" }, url \in { u_endpoint_app, u_endpoint_root } }

Configs ==
    [ base : { s_slash, s_base_app }, command : { "serve" } ]

\* pathExceptions is a member of PluginOptions that importMapPlugin does not
\* destructure.
Options ==
    { [ isRoot |-> TRUE, allowedOrigins |-> << s_example_com >>,
        pathExceptions |-> << u_module >> ],
      [ isRoot |-> FALSE, allowedOrigins |-> <<>>, pathExceptions |-> <<>> ] }

(***************************************************************************)
(* Requests in flight and outputs                                          *)
(***************************************************************************)
\* A request being handled.  phase: "reading" (a POST whose body is
\* arriving), "waiting" (suspended in waitAsync), "ok" / "timed-out"
\* (waitAsync has resolved, the middleware has not resumed yet).  body is the
\* handler's let body; sent is what the client has sent on this request so
\* far; pending are the chunks still to arrive.  watched singles out one
\* blocked request among those with the same method and URL, so that what
\* becomes of that very request can be followed.
Held(req, phase, pending, body, sent) ==
    [method |-> req.method, url |-> req.url, phase |-> phase,
     pending |-> pending, body |-> body, sent |-> sent, watched |-> FALSE]

\* The request that is followed, if it is in flight.
Watched(slots) == { h \in BagToSet(slots) : h.watched }

\* inflight with h replaced by g
Replace(slots, h, g) == (slots (-) SetToBag({ h })) (+) SetToBag({ g })

\* What a step did.  by: the handler that ran.  kind: "none", "response"
\* (res.writeHead and res.end), "next" (next() called), "reading" (the POST
\* handler registered its listeners), "blocked" (the middleware suspended in
\* waitAsync).  sent is the whole body the client sent, wait the result of
\* waitAsync, gate the event as it was when the step began, effects what the
\* step did to the mapping, the event and the response, in program order.
Out(by, kind, req, status, body, wait, sent, gate, effects) ==
    [by |-> by, kind |-> kind, req |-> req, status |-> status, body |-> body,
     wait |-> wait, sent |-> sent, gate |-> gate, effects |-> effects,
     watched |-> FALSE, headers |-> {}]

\* The headers given to res.writeHead, as name-value pairs.
JsonHeaders == { << "Content-Type", "application/json" >> }

CorsHeaders ==
    { << "Access-Control-Allow-Origin", "*" >>,
      << "Access-Control-Allow-Methods", "POST, OPTIONS" >>,
      << "Access-Control-Allow-Headers", "Content-Type" >> }

AllowHeaders == { << "Content-Type", "application/json" >>, << "Allow", "POST, OPTIONS" >> }

NoOut == Out("none", "none", NoRequest, 0, <<>>, "none", <<>>, "Unset", <<>>)

NoProbe ==
    [text |-> <<>>, done |-> FALSE, value |-> JNull, accepted |-> FALSE,
     id |-> <<>>, result |-> JNull, thrown |-> FALSE, hook |-> "none",
     importer |-> JUndefined, isResolved |-> FALSE]

m_origin_not_allowed ==
    << "O", "r", "i", "g", "i", "n", " ", "n", "o", "t", " ", "a", "l", "l", "o", "w", "e", "d" >>
m_invalid ==
    << "I", "n", "v", "a", "l", "i", "d", " ", "i", "m", "p", "o", "r", "t", " ",
       "m", "a", "p", " ", "d", "a", "t", "a" >>
m_method_not_allowed ==
    << "M", "e", "t", "h", "o", "d", " ", "n", "o", "t", " ", "a", "l", "l", "o", "w", "e", "d" >>

\* JSON.stringify({ error: message })
ErrorBody(message) == JsonStringify(JObj(<< Entry(s_error, JStr(message)) >>))

\* JSON.stringify({ success: true, imports: importCount })
SuccessBody(importCount) ==
    JsonStringify(JObj(<< Entry(s_success, JBool(TRUE)),
                          Entry(s_imports, JNum(IndexKey(importCount))) >>))

(***************************************************************************)
(* The readiness gate (ManualResetEvent of @wjfe/async-workers)            *)
(***************************************************************************)

\* ManualResetEvent.isSignaled(importMapReadyEvent.token)
isSignaled(event) == event = "Set"

\* signal releasing a single suspended waitAsync
signalOne(slots) ==
    LET waiting == { h \in BagToSet(slots) : h.phase = "waiting" }
    IN  IF waiting = {} THEN slots
        ELSE LET h == CHOOSE w \in waiting : TRUE
             IN  Replace(slots, h, [ h EXCEPT !.phase = "ok" ])

\* What importMapReadyEvent.signal() does to the suspended waitAsync calls:
\* each of them resolves, with a value other than 'timed-out'.
signal(slots) ==
    BagOfAll(LAMBDA h : IF h.phase = "waiting" THEN [h EXCEPT !.phase = "ok"] ELSE h,
             slots)

(***************************************************************************)
(* The handlers                                                            *)
(***************************************************************************)

(***************************************************************************)
(* The resolver                                                            *)
(***************************************************************************)
s_object_Object ==
    << "[", "o", "b", "j", "e", "c", "t", " ", "O", "b", "j", "e", "c", "t", "]" >>
s_undefined == << "u", "n", "d", "e", "f", "i", "n", "e", "d" >>

RECURSIVE ToStr(_)
\* String(v) for a value whose conversion does not throw.
ToStr(v) ==
    CASE v.t \in { "str", "num", "bool" } -> v.s
      [] v.t = "null" -> s_null
      [] v.t = "undefined" -> s_undefined
      [] v.t = "obj" -> s_object_Object
      [] v.t = "arr" -> Join([ j \in 1..Len(v.e) |->
                                 IF v.e[j].v.t \in { "null", "undefined" } THEN <<>>
                                 ELSE ToStr(v.e[j].v) ], << "," >>)

\* What a call returns: a value, or an exception thrown.
Returned(v) == [thrown |-> FALSE, v |-> v]
Thrown == [thrown |-> TRUE, v |-> JUndefined]

\* value + remainder, remainder a string
Plus(value, remainder) ==
    IF ToStringThrows(value) THEN Thrown
    ELSE IF value.t = "str" THEN Returned(JStr(value.s \o remainder))
    ELSE Returned(JStr(ToStr(value) \o remainder))

\* The index of the first entry from j on whose key ends in '/' and is a
\* prefix of id, or 0: the for loop of resolveFromImportMap.
RECURSIVE FirstPrefix(_, _, _)
FirstPrefix(entries, id, j) ==
    IF j > Len(entries) THEN 0
    ELSE IF EndsWith(entries[j].k, s_slash) /\ StartsWith(id, entries[j].k) THEN j
    ELSE FirstPrefix(entries, id, j + 1)

\* The index of the last entry up to j whose key ends in '/' and is a prefix
\* of id, or 0.
RECURSIVE LastPrefix(_, _, _)
LastPrefix(entries, id, j) ==
    IF j < 1 THEN 0
    ELSE IF EndsWith(entries[j].k, s_slash) /\ StartsWith(id, entries[j].k) THEN j
    ELSE LastPrefix(entries, id, j - 1)

\* resolveFromImportMap taking the last matching prefix
resolveLastPrefix(id, map) ==
    LET imports == GetProp(map, s_imports)
        entries == ObjectEntries(imports)
        j == LastPrefix(entries, id, Len(entries))
    IN  IF ~Truthy(imports) THEN Returned(JNull)
        ELSE IF Truthy(GetProp(imports, id)) THEN Returned(GetProp(imports, id))
        ELSE IF j # 0 THEN Plus(entries[j].v, Slice(id, Len(entries[j].k)))
        ELSE Returned(JNull)

\* resolveFromImportMap(id), with importMap as it is when the call is made
resolveFromImportMap(id, map) ==
    LET imports == GetProp(map, s_imports)
        entries == ObjectEntries(imports)
        j == FirstPrefix(entries, id, 1)
    IN  IF ~Truthy(imports) THEN Returned(JNull)
        ELSE IF Truthy(GetProp(imports, id)) THEN Returned(GetProp(imports, id))
        ELSE IF j # 0 THEN Plus(entries[j].v, Slice(id, Len(entries[j].k)))
        ELSE Returned(JNull)

s_id == << "i", "d" >>
s_external == << "e", "x", "t", "e", "r", "n", "a", "l" >>

\* isBareIdentifier = (id: string) => id.startsWith('@')
isBareIdentifier(id) == StartsWith(id, << "@" >>)

\* What resolveId(id, _importer) returns with importMap being map, and the
\* member it adds to externalizedModules (add = FALSE: it adds none).
resolveId(id, map) ==
    LET resolved == resolveFromImportMap(id, map)
        target == Or(resolved.v, JStr(id))
    IN  IF ~isBareIdentifier(id)
        THEN [thrown |-> FALSE, v |-> JNull, add |-> FALSE, member |-> JNull]
        ELSE IF resolved.thrown
        THEN [thrown |-> TRUE, v |-> JUndefined, add |-> FALSE, member |-> JNull]
        ELSE [thrown |-> FALSE,
              v |-> JObj(<< Entry(s_id, target), Entry(s_external, JBool(TRUE)) >>),
              add |-> TRUE, member |-> target]

\* shouldBlockJavaScriptRequest without the test of the event
shouldBlockIgnoringGate(req, cfg, opts, event) ==
    IF cfg.command # "serve" THEN FALSE
    ELSE IF req.method # "GET" THEN FALSE
    ELSE IF SeqIncludes(stockPathExceptions(cfg.base, opts.isRoot), req.url) THEN FALSE
    ELSE TRUE

\* shouldBlockJavaScriptRequest without the test of the request method
shouldBlockAnyMethod(req, cfg, opts, event) ==
    IF cfg.command # "serve" THEN FALSE
    ELSE IF isSignaled(event) THEN FALSE
    ELSE IF SeqIncludes(stockPathExceptions(cfg.base, opts.isRoot), req.url) THEN FALSE
    ELSE TRUE

\* shouldBlockJavaScriptRequest(req)
shouldBlockJavaScriptRequest(req, cfg, opts, event) ==
    IF cfg.command # "serve" THEN FALSE
    ELSE IF req.method # "GET" THEN FALSE
    ELSE IF isSignaled(event) THEN FALSE
    ELSE IF SeqIncludes(stockPathExceptions(cfg.base, opts.isRoot), req.url) THEN FALSE
    ELSE TRUE

\* OnEndResult with signal() moved to the top of the try block
OnEndResultSignalFirst(body, map, event) ==
    LET parsed == JsonParse(body)
        receivedImportMap == parsed.v
        imports == GetProp(receivedImportMap, s_imports)
        importCount == Len(ObjectKeys(Or(imports, JObj(<<>>))))
        logThrows ==
            /\ Truthy(imports)
            /\ \E j \in 1..Len(ObjectEntries(imports)) :
                   ToStringThrows(ObjectEntries(imports)[j].v)
    IN  IF ~parsed.ok \/ ~validateIm(receivedImportMap)
        THEN [importMap |-> map, event |-> "Set", effects |-> << "signal", "respond" >>,
              status |-> 400, body |-> ErrorBody(m_invalid)]
        ELSE IF logThrows
        THEN [importMap |-> receivedImportMap, event |-> "Set",
              effects |-> << "signal", "store", "respond" >>,
              status |-> 400, body |-> ErrorBody(m_invalid)]
        ELSE [importMap |-> receivedImportMap, event |-> "Set",
              effects |-> << "signal", "store", "respond" >>,
              status |-> 200, body |-> SuccessBody(importCount)]

\* OnEndResult with the event reset at the top of the try block
OnEndResultResetting(body, map, event) ==
    LET parsed == JsonParse(body)
        receivedImportMap == parsed.v
        imports == GetProp(receivedImportMap, s_imports)
        importCount == Len(ObjectKeys(Or(imports, JObj(<<>>))))
        logThrows ==
            /\ Truthy(imports)
            /\ \E j \in 1..Len(ObjectEntries(imports)) :
                   ToStringThrows(ObjectEntries(imports)[j].v)
    IN  IF ~parsed.ok \/ ~validateIm(receivedImportMap)
        THEN [importMap |-> map, event |-> "Unset", effects |-> << "reset", "respond" >>,
              status |-> 400, body |-> ErrorBody(m_invalid)]
        ELSE IF logThrows
        THEN [importMap |-> receivedImportMap, event |-> "Unset",
              effects |-> << "reset", "store", "respond" >>,
              status |-> 400, body |-> ErrorBody(m_invalid)]
        ELSE [importMap |-> receivedImportMap, event |-> "Set",
              effects |-> << "store", "signal", "respond" >>,
              status |-> 200, body |-> SuccessBody(importCount)]

\* The body of req.on('end', ...) of the POST handler, for the text read into
\* body: the mapping and the event it leaves, and the response it writes.
\* The loop that logs the imports converts each value to a string (fmt.url),
\* which throws for a value that has no primitive form; the catch then
\* answers 400.
OnEndResult(body, map, event) ==
    LET parsed == JsonParse(body)
        receivedImportMap == parsed.v
        imports == GetProp(receivedImportMap, s_imports)
        importCount == Len(ObjectKeys(Or(imports, JObj(<<>>))))
        logThrows ==
            /\ Truthy(imports)
            /\ \E j \in 1..Len(ObjectEntries(imports)) :
                   ToStringThrows(ObjectEntries(imports)[j].v)
    IN  IF ~parsed.ok \/ ~validateIm(receivedImportMap)
        THEN [importMap |-> map, event |-> event, effects |-> << "respond" >>,
              status |-> 400, body |-> ErrorBody(m_invalid)]
        ELSE IF logThrows
        THEN [importMap |-> receivedImportMap, event |-> event,
              effects |-> << "store", "respond" >>,
              status |-> 400, body |-> ErrorBody(m_invalid)]
        ELSE [importMap |-> receivedImportMap, event |-> "Set",
              effects |-> << "store", "signal", "respond" >>,
              status |-> 200, body |-> SuccessBody(importCount)]

\* body += chunk.toString() in the data listener of request h
AppendChunk(slots, h, chunk) ==
    Replace(slots, h, [h EXCEPT !.body = @ \o chunk, !.sent = @ \o chunk,
                                !.pending = Tail(@)])

\* The import map endpoint middleware, called with a request on its route: a
\* POST from an allowed origin starts reading the body, every other request is
\* answered at once.
Receive(req, chunks) ==
    /\ RouteMatches(importMapEndpointUrl(config.base), req.url)
    /\ UNCHANGED << options, config, importMap, importMapReadyEvent, probe, externalizedModules, cssMap, meta, browser >>
    /\ IF req.method = "POST"
       THEN IF ~isOriginAllowed(Or(req.origin, req.referer), options.allowedOrigins)
            THEN /\ out' = [ Out("Receive", "response", req, 403, ErrorBody(m_origin_not_allowed),
                                 "none", <<>>, importMapReadyEvent, << "respond" >>)
                             EXCEPT !.headers = JsonHeaders ]
                 /\ UNCHANGED inflight
            ELSE /\ inflight' = inflight (+) SetToBag({ Held(req, "reading", chunks, <<>>, <<>>) })
                 /\ out' = Out("Receive", "reading", req, 0, <<>>, "none", <<>>, importMapReadyEvent, <<>>)
       ELSE IF req.method = "OPTIONS"
       THEN /\ out' = [ Out("Receive", "response", req, 200, <<>>, "none", <<>>,
                            importMapReadyEvent, << "respond" >>)
                        EXCEPT !.headers = CorsHeaders ]
            /\ UNCHANGED inflight
       ELSE /\ out' = [ Out("Receive", "response", req, 405, ErrorBody(m_method_not_allowed),
                            "none", <<>>, importMapReadyEvent, << "respond" >>)
                        EXCEPT !.headers = AllowHeaders ]
            /\ UNCHANGED inflight

\* The request blocking middleware, called with a request the endpoint
\* middleware did not take: next() at once, or suspension in waitAsync.
Filter(req) ==
    /\ ~RouteMatches(importMapEndpointUrl(config.base), req.url)
    /\ UNCHANGED << options, config, importMap, importMapReadyEvent, probe, externalizedModules, cssMap, meta, browser >>
    /\ IF ~shouldBlockJavaScriptRequest(req, config, options, importMapReadyEvent)
       THEN /\ out' = Out("Filter", "next", req, 0, <<>>, "none", <<>>, importMapReadyEvent, <<>>)
            /\ UNCHANGED inflight
       ELSE /\ \E w \in BOOLEAN :
                  /\ w => Watched(inflight) = {}
                  /\ inflight' = inflight (+) SetToBag({ [ Held(req, "waiting", <<>>, <<>>, <<>>)
                                                            EXCEPT !.watched = w ] })
            /\ out' = Out("Filter", "blocked", req, 0, <<>>, "none", <<>>, importMapReadyEvent, <<>>)

\* A request arrives and goes down the middleware stack.  The body varies
\* for the POSTs with the Origin header o_local; every other request carries
\* BodyA.
Arrive ==
    /\ BagCardinality(inflight) < MaxInFlight
    /\ \E req \in Requests :
          \/ \E chunks \in Bodies :
                /\ chunks = BodyA \/ (req.method = "POST" /\ req.origin = JStr(o_local))
                /\ Receive(req, chunks)
          \/ Filter(req)

\* req.on('data', chunk => body += chunk.toString())
OnData(h) ==
    /\ h.phase = "reading"
    /\ h.pending # <<>>
    /\ inflight' = AppendChunk(inflight, h, Head(h.pending))
    /\ out' = NoOut
    /\ UNCHANGED << options, config, importMap, importMapReadyEvent, probe, externalizedModules, cssMap, meta, browser >>

\* req.on('end', ...): the whole body has arrived.
OnEnd(h) ==
    /\ h.phase = "reading"
    /\ h.pending = <<>>
    /\ LET r == OnEndResult(h.body, importMap, importMapReadyEvent)
           rest == inflight (-) SetToBag({ h })
       IN  /\ importMap' = r.importMap
           /\ importMapReadyEvent' = r.event
           /\ inflight' = IF SeqIncludes(r.effects, "signal") THEN signal(rest) ELSE rest
           /\ out' = [ Out("OnEnd", "response", Request(h.method, h.url, JUndefined, JUndefined),
                           r.status, r.body, "none", h.sent, importMapReadyEvent, r.effects)
                       EXCEPT !.headers = IF r.status = 200 THEN JsonHeaders \cup CorsHeaders
                                          ELSE JsonHeaders ]
    /\ UNCHANGED << options, config, probe, externalizedModules, cssMap, meta, browser >>

\* A timeout on which the middleware proceeds while its wait stays registered
\* on the event
WaitTimedOutStillWaiting(h) ==
    /\ BagIn(h, inflight)
    /\ h.phase = "waiting"
    /\ inflight' = inflight
    /\ out' = [ Out("Resume", "next", Request(h.method, h.url, JUndefined, JUndefined), 0, <<>>,
                    "timed-out", <<>>, importMapReadyEvent, <<>>)
                EXCEPT !.watched = h.watched ]
    /\ UNCHANGED << options, config, importMap, importMapReadyEvent, probe, externalizedModules, cssMap, meta, browser >>

\* The timeout of a suspended waitAsync passes: it resolves with 'timed-out'.
WaitTimedOut(h) ==
    /\ BagIn(h, inflight)
    /\ h.phase = "waiting"
    /\ inflight' = Replace(inflight, h, [h EXCEPT !.phase = "timed-out"])
    /\ out' = NoOut
    /\ UNCHANGED << options, config, importMap, importMapReadyEvent, probe, externalizedModules, cssMap, meta, browser >>

\* The blocking middleware calling next() only when the wait did not time out
ResumeOnlyReady(h) ==
    /\ BagIn(h, inflight)
    /\ h.phase = "ok"
    /\ inflight' = inflight (-) SetToBag({ h })
    /\ out' = [ Out("Resume", "next", Request(h.method, h.url, JUndefined, JUndefined), 0, <<>>,
                    h.phase, <<>>, importMapReadyEvent, <<>>)
                EXCEPT !.watched = h.watched ]
    /\ UNCHANGED << options, config, importMap, importMapReadyEvent, probe, externalizedModules, cssMap, meta, browser >>

\* The blocking middleware resumes after its await and calls next().
Resume(h) ==
    /\ BagIn(h, inflight)
    /\ h.phase \in { "ok", "timed-out" }
    /\ inflight' = inflight (-) SetToBag({ h })
    /\ out' = [ Out("Resume", "next", Request(h.method, h.url, JUndefined, JUndefined), 0, <<>>,
                    h.phase, <<>>, importMapReadyEvent, <<>>)
                EXCEPT !.watched = h.watched ]
    /\ UNCHANGED << options, config, importMap, importMapReadyEvent, probe, externalizedModules, cssMap, meta, browser >>

Init ==
    /\ options \in Options
    /\ config \in Configs
    /\ importMap = InitialImportMap
    /\ importMapReadyEvent = "Unset"
    /\ inflight = EmptyBag
    /\ out = NoOut
    /\ probe = NoProbe
    /\ externalizedModules = {}
    /\ cssMap = NoCssMap
    /\ meta = NoMeta
    /\ browser = NoBrowser

Next ==
    \/ Arrive
    \/ \E h \in BagToSet(inflight) : OnData(h)
    \/ \E h \in BagToSet(inflight) : OnEnd(h)
    \/ \E h \in BagToSet(inflight) : WaitTimedOut(h)
    \/ \E h \in BagToSet(inflight) : Resume(h)

Spec == Init /\ [][Next]_vars

\* The blocked requests that can be the followed one.
WatchedRequests ==
    { [ Held(req, phase, <<>>, <<>>, <<>>) EXCEPT !.watched = TRUE ] :
        req \in { r \in Requests : r.method = "GET" },
        phase \in { "waiting", "ok", "timed-out" } }

\* The timer of a waitAsync call fires after importMapTimeout unless the call
\* has resolved before, and the continuation of a resolved await is run by
\* the event loop.
Fairness ==
    \A h \in WatchedRequests : WF_vars(WaitTimedOut(h)) /\ WF_vars(Resume(h))

SpecFair == Spec /\ Fairness

(***************************************************************************)
(* The blocking middleware alone, in every mode and state of the gate      *)
(***************************************************************************)

\* The number of requests handed to the blocking middleware.
MaxAdmitted == 2

\* config.command as Vite resolves it.
Commands == { "serve", "build" }

InitAdmission ==
    /\ options \in Options
    /\ config \in [ base : { s_slash, s_base_app }, command : Commands ]
    /\ importMap = InitialImportMap
    /\ importMapReadyEvent \in { "Unset", "Set" }
    /\ inflight = EmptyBag
    /\ out = NoOut
    /\ probe = NoProbe
    /\ externalizedModules = {}
    /\ cssMap = NoCssMap
    /\ meta = NoMeta
    /\ browser = NoBrowser

\* GETs for the paths under either base that a page load begins with: the
\* document root, index.html, the client runtime and the sender script.
PageLoadRequests ==
    { Request("GET", base \o Tail(path), JUndefined, JUndefined) :
        base \in { s_slash, s_base_app },
        path \in { s_slash, s_index_html, s_vite_client, importMapSenderEndpoint } }

\* The blocking middleware is called with a request.
Admit ==
    /\ BagCardinality(inflight) < MaxAdmitted
    /\ \E req \in Requests \cup PageLoadRequests : Filter(req)

SpecAdmission == InitAdmission /\ [][Admit]_vars

(***************************************************************************)
(* resolveFromImportMap applied alone to a stored mapping                  *)
(***************************************************************************)

\* The number of entries of the imports the resolver is applied to.
MaxImports == 3

k_a_slash == << "@", "a", "/" >>
k_a_b == << "@", "a", "/", "b" >>
k_a_b_slash == << "@", "a", "/", "b", "/" >>
id_a_b_c == << "@", "a", "/", "b", "/", "c" >>
id_c == << "@", "c" >>
v_X == << "X", "/" >>
v_Y == << "Y", "/" >>

ResolveKeys == { k_a, k_a_slash, k_a_b, k_a_b_slash }

ResolveValues == { JStr(v_X), JStr(v_Y), JStr(<<>>), JNull }

Specifiers == { k_a, k_a_slash, k_a_b, k_a_b_slash, id_a_b_c, id_c }

\* Every imports object with up to MaxImports entries, in every order of keys.
ResolveImports ==
    UNION { { JObj(e) : e \in { f \in [1..n -> [k : ResolveKeys, v : ResolveValues]] :
                                   \A i, j \in 1..n : i # j => f[i].k # f[j].k } } :
            n \in 0..MaxImports }

\* The mappings a POST can have stored, and the initial one.
ResolveMaps ==
    { JObj(<< Entry(s_imports, imports), Entry(s_scopes, JObj(<<>>)) >>) :
        imports \in ResolveImports \cup { JNull } }
    \cup { InitialImportMap }

InitResolve ==
    /\ options = [ isRoot |-> TRUE, allowedOrigins |-> <<>>, pathExceptions |-> <<>> ]
    /\ config = [ base |-> s_slash, command |-> "serve" ]
    /\ importMap \in ResolveMaps
    /\ importMapReadyEvent = "Unset"
    /\ inflight = EmptyBag
    /\ out = NoOut
    /\ probe = NoProbe
    /\ externalizedModules = {}
    /\ cssMap = NoCssMap
    /\ meta = NoMeta
    /\ browser = NoBrowser

\* const resolved = resolveFromImportMap(id)
Resolve ==
    /\ ~probe.done
    /\ \E id \in Specifiers :
          probe' = [ probe EXCEPT !.done = TRUE,
                                  !.id = id,
                                  !.result = resolveFromImportMap(id, importMap).v,
                                  !.thrown = resolveFromImportMap(id, importMap).thrown ]
    /\ UNCHANGED << options, config, importMap, importMapReadyEvent, inflight, out,
                    externalizedModules, cssMap, meta, browser >>

SpecResolve == InitResolve /\ [][Resolve]_vars

(***************************************************************************)
(* The resolveId hook called while import maps are being posted            *)
(***************************************************************************)

\* The number of POSTs being read at one time while the hook is called.
MaxPosting == 1

id_a_x == << "@", "a", "/", "x" >>

\* {"imports":{"@a/":"X/"},"scopes":{}} in one chunk
BodyPrefix ==
    << << LBrace, TStr(s_imports), Colon, LBrace, TStr(k_a_slash), Colon, TStr(v_X),
          RBrace, Comma, TStr(s_scopes), Colon, LBrace, RBrace, RBrace >> >>

\* {"imports":{"@a/":{"toString":1}},"scopes":{}} in one chunk
BodyToStringPrefix ==
    << << LBrace, TStr(s_imports), Colon, LBrace, TStr(k_a_slash), Colon,
          LBrace, TStr(s_toString), Colon, TNum(<< "1" >>), RBrace,
          RBrace, Comma, TStr(s_scopes), Colon, LBrace, RBrace, RBrace >> >>

HookBodies == { BodyA, BodyB, BodyPrefix, BodyToStringPrefix }

\* The specifiers the bundler asks about: bare ones and a path.
HookSpecifiers == { k_a, k_b, id_a_x, u_module }

InitHooks ==
    /\ options = [ isRoot |-> TRUE, allowedOrigins |-> <<>>, pathExceptions |-> <<>> ]
    /\ config = [ base |-> s_base_app, command |-> "serve" ]
    /\ importMap = InitialImportMap
    /\ importMapReadyEvent = "Unset"
    /\ inflight = EmptyBag
    /\ out = NoOut
    /\ probe = NoProbe
    /\ externalizedModules = {}
    /\ cssMap = NoCssMap
    /\ meta = NoMeta
    /\ browser = NoBrowser

\* A POST of an import map arrives from a loopback origin.
ArrivePost ==
    /\ BagCardinality(inflight) < MaxPosting
    /\ \E chunks \in HookBodies :
          Receive(Request("POST", u_endpoint_app, JStr(o_local), JUndefined), chunks)

\* resolveId answering from the result it gave for the same id before
ResolveIdCached ==
    /\ \E id \in HookSpecifiers :
          LET r == IF probe.hook = "resolveId" /\ probe.id = id
                   THEN [thrown |-> probe.thrown, v |-> probe.value, add |-> FALSE,
                         member |-> JNull]
                   ELSE resolveId(id, importMap)
          IN  /\ probe' = [ probe EXCEPT !.hook = "resolveId", !.done = TRUE, !.id = id,
                                         !.result = resolveFromImportMap(id, importMap).v,
                                         !.value = r.v, !.thrown = r.thrown ]
              /\ externalizedModules' = IF r.add THEN externalizedModules \cup { r.member }
                                        ELSE externalizedModules
    /\ UNCHANGED << options, config, importMap, importMapReadyEvent, inflight, out,
                    cssMap, meta, browser >>

\* The bundler calls resolveId(id, importer).
ResolveId ==
    /\ \E id \in HookSpecifiers :
          LET r == resolveId(id, importMap)
          IN  /\ probe' = [ probe EXCEPT !.hook = "resolveId", !.done = TRUE, !.id = id,
                                         !.result = resolveFromImportMap(id, importMap).v,
                                         !.value = r.v, !.thrown = r.thrown ]
              /\ externalizedModules' = IF r.add THEN externalizedModules \cup { r.member }
                                        ELSE externalizedModules
    /\ UNCHANGED << options, config, importMap, importMapReadyEvent, inflight, out,
                    cssMap, meta, browser >>

NextHooks ==
    \/ ArrivePost
    \/ \E h \in BagToSet(inflight) : OnData(h)
    \/ \E h \in BagToSet(inflight) : OnEnd(h)
    \/ ResolveId

SpecHooks == InitHooks /\ [][NextHooks]_vars

(***************************************************************************)
(* validateIm applied alone to the parse of a JSON text                    *)
(***************************************************************************)

\* The number of members of the objects validateIm is applied to.
MaxProbeMembers == 3

ProbeKeys == { s_imports, s_scopes, s_integrity, s_toString }

ProbeValues == { JObj(<<>>), JNull, JStr(v_u1) }

\* The objects with up to MaxProbeMembers members, in every order of keys.
ProbeObjects ==
    UNION { { JObj(e) : e \in { f \in [1..n -> [k : ProbeKeys, v : ProbeValues]] :
                                   \A i, j \in 1..n : i # j => f[i].k # f[j].k } } :
            n \in 0..MaxProbeMembers }

\* Values that are no plain objects.
ProbeOthers ==
    { JNull, JBool(TRUE), JNum(<< "5" >>), JStr(s_imports), JArr(<<>>),
      JArr(<< Entry(IndexKey(0), JStr(s_imports)), Entry(IndexKey(1), JStr(s_scopes)) >>) }

\* Texts in which a key occurs twice.
ProbeRepeats ==
    { << LBrace, TStr(s_imports), Colon, LBrace, RBrace, Comma,
         TStr(s_imports), Colon, LBrace, RBrace, RBrace >>,
      << LBrace, TStr(s_imports), Colon, LBrace, RBrace, Comma,
         TStr(s_scopes), Colon, LBrace, RBrace, Comma,
         TStr(s_imports), Colon, TNull, RBrace >> }

ProbeTexts == { JsonStringify(v) : v \in ProbeObjects \cup ProbeOthers } \cup ProbeRepeats

InitValidate ==
    /\ options = [ isRoot |-> TRUE, allowedOrigins |-> <<>>, pathExceptions |-> <<>> ]
    /\ config = [ base |-> s_slash, command |-> "serve" ]
    /\ importMap = InitialImportMap
    /\ importMapReadyEvent = "Unset"
    /\ inflight = EmptyBag
    /\ out = NoOut
    /\ probe \in { [ NoProbe EXCEPT !.text = t ] : t \in ProbeTexts }
    /\ externalizedModules = {}
    /\ cssMap = NoCssMap
    /\ meta = NoMeta
    /\ browser = NoBrowser

\* const receivedImportMap = JSON.parse(body); validateIm(receivedImportMap)
Validate ==
    /\ ~probe.done
    /\ JsonParse(probe.text).ok
    /\ probe' = [ probe EXCEPT !.done = TRUE,
                               !.value = JsonParse(probe.text).v,
                               !.accepted = validateIm(JsonParse(probe.text).v) ]
    /\ UNCHANGED << options, config, importMap, importMapReadyEvent, inflight, out,
                    externalizedModules, cssMap, meta, browser >>

SpecValidate == InitValidate /\ [][Validate]_vars

(***************************************************************************)
(* Build externals: mergeExternalOptions and the config hook               *)
(***************************************************************************)

MaxOptions == 2

\* Rollup's ExternalOption: a string, a RegExp, an array of both, a function.
\* A RegExp is a literal text, anchored at the start or not, with or without
\* the g flag, and its lastIndex.
OStr(chars) ==
    [k |-> "str", s |-> chars, anchored |-> FALSE, global |-> FALSE, lastIndex |-> 0,
     items |-> <<>>, f |-> "none"]
ORe(chars, anchored, global) ==
    [k |-> "re", s |-> chars, anchored |-> anchored, global |-> global, lastIndex |-> 0,
     items |-> <<>>, f |-> "none"]
OArr(items) ==
    [k |-> "arr", s |-> <<>>, anchored |-> FALSE, global |-> FALSE, lastIndex |-> 0,
     items |-> items, f |-> "none"]
OFn(name) ==
    [k |-> "fn", s |-> <<>>, anchored |-> FALSE, global |-> FALSE, lastIndex |-> 0,
     items |-> <<>>, f |-> name]

s_a == << "a" >>
s_b == << "b" >>
s_c == << "c" >>
s_bxyz == << "b", "x", "y", "z" >>
s_importer == << "m", ".", "j", "s" >>

\* "a", /^b/, /b/g, ["c", /^b/], (s, i, r) => r, (s, i) => i, () => undefined
ExternalOptions ==
    { OStr(s_a), ORe(s_b, TRUE, FALSE), ORe(s_b, FALSE, TRUE),
      OArr(<< OStr(s_c), ORe(s_b, TRUE, FALSE) >>),
      OFn("isResolved"), OFn("importer"), OFn("void") }

Sources == { s_a, s_bxyz, s_c }
Importers == { JUndefined, JStr(s_importer) }

\* opt(source, importer, isResolved) for the functions of ExternalOptions
ApplyFn(name, source, importer, isResolved) ==
    CASE name = "isResolved" -> JBool(isResolved)
      [] name = "importer" -> importer
      [] OTHER -> JUndefined

\* RegExp.prototype.test: with the g flag the search starts at lastIndex and
\* leaves lastIndex after the match, or at 0 when there is none.
test(re, source) ==
    LET start == IF re.global THEN re.lastIndex ELSE 0
        hits == { i \in start..(Len(source) - Len(re.s)) :
                     /\ SubSeq(source, i + 1, i + Len(re.s)) = re.s
                     /\ re.anchored => i = 0 }
        at == CHOOSE i \in hits : \A j \in hits : i <= j
    IN  [ v |-> hits # {},
          re |-> IF re.global
                 THEN [ re EXCEPT !.lastIndex = IF hits # {} THEN at + Len(re.s) ELSE 0 ]
                 ELSE re ]

\* opt.some(r => r instanceof RegExp && r.test(source)), from element j on
RECURSIVE someRegExp(_, _, _)
someRegExp(items, j, source) ==
    IF j > Len(items)
    THEN [v |-> FALSE, items |-> items]
    ELSE IF items[j].k = "re"
    THEN LET t == test(items[j], source)
             tested == [ items EXCEPT ![j] = t.re ]
         IN  IF t.v THEN [v |-> TRUE, items |-> tested]
             ELSE someRegExp(tested, j + 1, source)
    ELSE someRegExp(items, j + 1, source)

\* The loop of the merged function from option i on: the result and the
\* options, whose patterns have been tested.
RECURSIVE mergedFrom(_, _, _, _, _)
mergedFrom(opts, i, source, importer, isResolved) ==
    IF i > Len(opts)
    THEN [v |-> FALSE, opts |-> opts]
    ELSE LET opt == opts[i]
             next == mergedFrom(opts, i + 1, source, importer, isResolved)
         IN  CASE opt.k = "str" ->
                    IF source = opt.s THEN [v |-> TRUE, opts |-> opts] ELSE next
               [] opt.k = "re" ->
                    LET t == test(opt, source)
                        tested == [ opts EXCEPT ![i] = t.re ]
                    IN  IF t.v THEN [v |-> TRUE, opts |-> tested]
                        ELSE mergedFrom(tested, i + 1, source, importer, isResolved)
               [] opt.k = "arr" ->
                    IF \E j \in 1..Len(opt.items) : opt.items[j] = OStr(source)
                    THEN [v |-> TRUE, opts |-> opts]
                    ELSE LET t == someRegExp(opt.items, 1, source)
                             tested == [ opts EXCEPT ![i] = OArr(t.items) ]
                         IN  IF t.v THEN [v |-> TRUE, opts |-> tested]
                             ELSE mergedFrom(tested, i + 1, source, importer, isResolved)
               [] OTHER ->
                    IF Truthy(ApplyFn(opt.f, source, importer, isResolved))
                    THEN [v |-> TRUE, opts |-> opts]
                    ELSE next

\* Only the first option is examined.
mergeFirstOption(opts, source, importer, isResolved) ==
    IF opts = <<>>
    THEN [v |-> FALSE, opts |-> opts]
    ELSE LET opt == opts[1]
         IN  CASE opt.k = "str" -> [v |-> source = opt.s, opts |-> opts]
               [] opt.k = "re" ->
                    [v |-> test(opt, source).v,
                     opts |-> [ opts EXCEPT ![1] = test(opt, source).re ]]
               [] opt.k = "arr" ->
                    IF \E j \in 1..Len(opt.items) : opt.items[j] = OStr(source)
                    THEN [v |-> TRUE, opts |-> opts]
                    ELSE [v |-> someRegExp(opt.items, 1, source).v,
                          opts |-> [ opts EXCEPT
                                       ![1] = OArr(someRegExp(opt.items, 1, source).items) ]]
               [] OTHER ->
                    [v |-> Truthy(ApplyFn(opt.f, source, importer, isResolved)),
                     opts |-> opts]

\* mergeExternalOptions(...options)(source, importer, isResolved)
mergeExternalOptions(opts, source, importer, isResolved) ==
    mergedFrom(opts, 1, source, importer, isResolved)

RECURSIVE OptionLists(_)
OptionLists(n) ==
    IF n = 0 THEN { <<>> }
    ELSE OptionLists(n - 1)
         \cup { Append(l, o) : l \in { m \in OptionLists(n - 1) : Len(m) = n - 1 },
                               o \in ExternalOptions }

\* options is the rest parameter of mergeExternalOptions, held by the merged
\* function.
InitMerge ==
    /\ options \in OptionLists(MaxOptions)
    /\ config = [ base |-> s_slash, command |-> "build" ]
    /\ importMap = InitialImportMap
    /\ importMapReadyEvent = "Unset"
    /\ inflight = EmptyBag
    /\ out = NoOut
    /\ probe = NoProbe
    /\ externalizedModules = {}
    /\ cssMap = NoCssMap
    /\ meta = NoMeta
    /\ browser = NoBrowser

\* The merged function is called.
CallMerged ==
    /\ \E source \in Sources, importer \in Importers, isResolved \in BOOLEAN :
          LET c == mergeExternalOptions(options, source, importer, isResolved)
          IN  /\ probe' = [ probe EXCEPT !.hook = "external", !.id = source,
                                         !.importer = importer,
                                         !.isResolved = isResolved,
                                         !.value = JBool(c.v) ]
              /\ options' = c.opts
    /\ UNCHANGED << config, importMap, importMapReadyEvent, inflight, out,
                    externalizedModules, cssMap, meta, browser >>

SpecMerge == InitMerge /\ [][CallMerged]_vars

\* No option: config.build.rollupOptions.external or externals is undefined.
NoExternal ==
    [k |-> "undefined", s |-> <<>>, anchored |-> FALSE, global |-> FALSE, lastIndex |-> 0,
     items |-> <<>>, f |-> "none"]

\* config.existing is the option the user gave Vite, config.external says what
\* config.build.rollupOptions.external refers to: nothing ("none"), the
\* user's option ("existing"), the plug-in's externals ("externals") or the
\* merged function of both ("merged").
InitConfig ==
    /\ options \in [ isRoot : { TRUE }, allowedOrigins : { <<>> }, pathExceptions : { <<>> },
                     externals : ExternalOptions \cup { NoExternal } ]
    /\ config \in { [ base |-> s_slash, command |-> c, existing |-> x,
                      external |-> IF x = NoExternal THEN "none" ELSE "existing" ] :
                    c \in Commands, x \in ExternalOptions \cup { NoExternal } }
    /\ importMap = InitialImportMap
    /\ importMapReadyEvent = "Unset"
    /\ inflight = EmptyBag
    /\ out = NoOut
    /\ probe = NoProbe
    /\ externalizedModules = {}
    /\ cssMap = NoCssMap
    /\ meta = NoMeta
    /\ browser = NoBrowser

\* The externals always replace what the user had given.
ConfigHookOverwrite ==
    /\ probe.hook = "none"
    /\ config' = IF config.command # "build" \/ options.externals = NoExternal
                 THEN config
                 ELSE [ config EXCEPT !.external = "externals" ]
    /\ probe' = [ probe EXCEPT !.hook = "config" ]
    /\ UNCHANGED << options, importMap, importMapReadyEvent, inflight, out,
                    externalizedModules, cssMap, meta, browser >>

\* config(config, env)
ConfigHook ==
    /\ probe.hook = "none"
    /\ config' = IF config.command # "build" \/ options.externals = NoExternal
                 THEN config
                 ELSE IF config.external # "none"
                 THEN [ config EXCEPT !.external = "merged" ]
                 ELSE [ config EXCEPT !.external = "externals" ]
    /\ probe' = [ probe EXCEPT !.hook = "config" ]
    /\ UNCHANGED << options, importMap, importMapReadyEvent, inflight, out,
                    externalizedModules, cssMap, meta, browser >>

\* The bundler asks config.build.rollupOptions.external about a specifier.
CallExternal ==
    /\ probe.hook # "none"
    /\ config.external # "none"
    /\ \E source \in Sources, importer \in Importers, isResolved \in BOOLEAN :
          LET opts == CASE config.external = "merged" ->
                             << config.existing, options.externals >>
                        [] config.external = "externals" -> << options.externals >>
                        [] OTHER -> << config.existing >>
              c == mergeExternalOptions(opts, source, importer, isResolved)
          IN  /\ probe' = [ probe EXCEPT !.hook = "external", !.id = source,
                                         !.importer = importer,
                                         !.isResolved = isResolved,
                                         !.value = JBool(c.v) ]
              /\ config' = IF config.external = "externals" THEN config
                           ELSE [ config EXCEPT !.existing = c.opts[1] ]
              /\ options' = IF config.external = "existing" THEN options
                            ELSE [ options EXCEPT !.externals = c.opts[Len(c.opts)] ]
    /\ UNCHANGED << importMap, importMapReadyEvent, inflight, out, externalizedModules, cssMap, meta, browser >>

NextConfig == ConfigHook \/ CallExternal

SpecConfig == InitConfig /\ [][NextConfig]_vars

(***************************************************************************)
(* The transform hook                                                      *)
(***************************************************************************)

MaxStatements == 3

s_import == << "i", "m", "p", "o", "r", "t" >>
s_client_suffix ==
    << "/", "v", "i", "t", "e", "/", "d", "i", "s", "t", "/", "c", "l", "i", "e", "n", "t", "/", "c", "l", "i", "e", "n", "t", ".", "m", "j", "s" >>
s_newline == << "\n" >>

\* The text of import-map-sender.js: the function expression with its default
\* parameters, the body left out, and the call without arguments.
s_iife_start ==
    << "(", "f", "u", "n", "c", "t", "i", "o", "n", " ", "(", "i", "s", "R", "o", "o", "t", " ", "=", " ", "t", "r", "u", "e", ",", " ", "p", "o", "s", "t", "E", "n", "d", "p", "o", "i", "n", "t", " ", "=", " ", "'", "/", "_", "_", "c", "u", "r", "r", "e", "n", "t", "_", "i", "m", "p", "o", "r", "t", "_", "m", "a", "p", "'", ")", " ", "{" >>
s_iife_end == << "}", ")", "(", ")", ";" >>
imsScript == s_iife_start \o s_iife_end

\* \s of a regular expression
WhiteSpace == { " ", "\n", "\t", "\r" }

\* Positions count from 0: the character at position p is code[p + 1].
\* ^ under the m flag
IsLineStart(code, p) == p = 0 \/ code[p] = "\n"

\* $ under the m flag: the first position from q on at the end of the text or
\* before a line break
EndOfLine(code, q) ==
    CHOOSE e \in q..Len(code) :
        /\ e = Len(code) \/ code[e + 1] = "\n"
        /\ \A j \in q..(e - 1) : code[j + 1] # "\n"

\* \s* : the end of the run of white space that starts at p
SkipWhiteSpace(code, p) ==
    CHOOSE i \in p..Len(code) :
        /\ \A j \in p..(i - 1) : code[j + 1] \in WhiteSpace
        /\ i = Len(code) \/ code[i + 1] \notin WhiteSpace

\* The end of the match of /^\s*import\s.+;?$/m that starts at p, or -1.
\* .+ is greedy and takes the rest of the line, so ;? matches at its end.
MatchEnd(code, p) ==
    LET i == SkipWhiteSpace(code, p)
        q == i + Len(s_import) + 1
    IN  IF /\ IsLineStart(code, p)
           /\ q < Len(code)
           /\ SubSeq(code, i + 1, i + Len(s_import)) = s_import
           /\ code[q] \in WhiteSpace
           /\ code[q + 1] # "\n"
        THEN EndOfLine(code, q)
        ELSE -1

\* The loop over importRegex.exec(code): from is the lastIndex of the regular
\* expression, lastIndex the variable of the function.
RECURSIVE execFrom(_, _, _)
execFrom(code, from, lastIndex) ==
    LET starts == { p \in from..Len(code) : MatchEnd(code, p) # -1 }
        first == CHOOSE p \in starts : \A r \in starts : p <= r
    IN  IF starts = {} THEN lastIndex
        ELSE execFrom(code, MatchEnd(code, first), MatchEnd(code, first))

findLastImportStatement(code) == execFrom(code, 0, -1)

\* transform(code, id) while runEnv.command is command: null, or the new code
transform(code, id, command) ==
    IF command = "build" THEN JNull
    ELSE IF EndsWith(id, s_client_suffix)
    THEN LET index == findLastImportStatement(code)
         IN  IF index = -1
             THEN JObj(<< Entry(<< "c", "o", "d", "e" >>, JStr(imsScript \o s_newline \o code)),
                          Entry(<< "m", "a", "p" >>, JNull) >>)
             ELSE JObj(<< Entry(<< "c", "o", "d", "e" >>,
                                JStr(SubSeq(code, 1, index) \o s_newline \o imsScript
                                     \o s_newline \o Slice(code, index))),
                          Entry(<< "m", "a", "p" >>, JNull) >>)
    ELSE JNull

\* Statements of the client script: an import on one line, an import that
\* spans three lines, a call.
st_import == << "i", "m", "p", "o", "r", "t", " ", "'", "a", "'", ";" >>
st_import_lines ==
    << "i", "m", "p", "o", "r", "t", " ", "{", "\n", " ", "b", "\n", "}", " ", "f", "r", "o", "m", " ", "'", "c", "'", ";" >>
st_call == << "x", "(", ")", ";" >>

Statements == { st_import, st_import_lines, st_call }

RECURSIVE StatementLists(_)
StatementLists(n) ==
    IF n = 0 THEN { <<>> }
    ELSE StatementLists(n - 1)
         \cup { Append(l, st) : l \in { m \in StatementLists(n - 1) : Len(m) = n - 1 },
                                st \in Statements }

\* The statements, one after the other, each on lines of its own
RECURSIVE JoinLines(_)
JoinLines(sts) ==
    IF sts = <<>> THEN <<>>
    ELSE IF Len(sts) = 1 THEN sts[1]
    ELSE sts[1] \o s_newline \o JoinLines(Tail(sts))

\* The ids of the modules the dev server transforms: its own client, a module
\* of the application, and a module of the application whose path ends like
\* the client's.
id_client ==
    << "/", "n", "o", "d", "e", "_", "m", "o", "d", "u", "l", "e", "s", "/", "v", "i", "t", "e", "/", "d", "i", "s", "t", "/", "c", "l", "i", "e", "n", "t", "/", "c", "l", "i", "e", "n", "t", ".", "m", "j", "s" >>
id_main == << "/", "s", "r", "c", "/", "m", "a", "i", "n", ".", "t", "s" >>
id_lookalike ==
    << "/", "s", "r", "c", "/", "v", "i", "t", "e", "/", "d", "i", "s", "t", "/", "c", "l", "i", "e", "n", "t", "/", "c", "l", "i", "e", "n", "t", ".", "m", "j", "s" >>
ModuleIds == { id_client, id_main, id_lookalike }

InitTransform ==
    /\ options \in [ isRoot : BOOLEAN, allowedOrigins : { <<>> }, pathExceptions : { <<>> } ]
    /\ config \in [ base : { s_slash, s_base_app }, command : Commands ]
    /\ importMap = InitialImportMap
    /\ importMapReadyEvent = "Unset"
    /\ inflight = EmptyBag
    /\ out = NoOut
    /\ probe \in { [ NoProbe EXCEPT !.text = JoinLines(sts) ] :
                   sts \in StatementLists(MaxStatements) }
    /\ externalizedModules = {}
    /\ cssMap = NoCssMap
    /\ meta = NoMeta
    /\ browser = NoBrowser

Transform ==
    /\ \E id \in ModuleIds :
          probe' = [ probe EXCEPT !.hook = "transform", !.id = id,
                                  !.value = transform(probe.text, id, config.command) ]
    /\ UNCHANGED << options, config, importMap, importMapReadyEvent, inflight, out,
                    externalizedModules, cssMap, meta, browser >>

SpecTransform == InitTransform /\ [][Transform]_vars

(***************************************************************************)
(* The sender script middleware                                            *)
(***************************************************************************)

\* The file import-map-sender.js beside the plug-in: missing, or one of two
\* texts, the second with a line break after the closing of the function.
SenderFiles ==
    { [ok |-> FALSE, text |-> <<>>],
      [ok |-> TRUE, text |-> imsScript],
      [ok |-> TRUE, text |-> imsScript \o s_newline] }

JavaScriptHeaders ==
    { << "Content-Type", "application/javascript" >>,
      << "Access-Control-Allow-Origin", "*" >> }

m_failed_to_load ==
    << "F", "a", "i", "l", "e", "d", " ", "t", "o", " ", "l", "o", "a", "d", " ", "s", "e", "n", "d", "e", "r", " ", "s", "c", "r", "i", "p", "t" >>

\* A ServerResponse nothing has been written to.
NewResponse ==
    [status |-> 0, headers |-> {}, body |-> <<>>, ended |-> FALSE, thrown |-> FALSE,
     effects |-> <<>>]

\* res.writeHead(status, headers): throws ERR_HTTP_HEADERS_SENT once the head
\* has been written.
writeHead(res, status, headers) ==
    IF res.status # 0
    THEN [ res EXCEPT !.thrown = TRUE, !.effects = @ \o << "ERR_HTTP_HEADERS_SENT" >> ]
    ELSE [ res EXCEPT !.status = status, !.headers = headers,
                      !.effects = @ \o << "writeHead" >> ]

\* res.end(body)
end(res, body) == [ res EXCEPT !.body = body, !.ended = TRUE, !.effects = @ \o << "end" >> ]

\* senderScript.replace(/}\)\(\);$/, `})(${isRoot}, '${importMapEndpointUrl}');`)
replacePlaceholders(senderScript, isRoot, endpointUrl) ==
    IF EndsWith(senderScript, s_iife_end)
    THEN SubSeq(senderScript, 1, Len(senderScript) - Len(s_iife_end))
         \o << "}", ")", "(" >> \o (IF isRoot THEN s_true ELSE s_false)
         \o << ",", " ", "'" >> \o endpointUrl \o << "'", ")", ";" >>
    ELSE senderScript

\* The handler registered under importMapSenderUrl, applied to a response.
senderMiddleware(file, isRoot, endpointUrl) ==
    LET head == writeHead(NewResponse, 200, JavaScriptHeaders)
        read == [ head EXCEPT !.effects = @ \o << "readFileSync" >> ]
        logged == [ read EXCEPT !.effects = @ \o << "logger.error" >> ]
        again == writeHead(logged, 500, JsonHeaders)
    IN  IF file.ok
        THEN end(read, replacePlaceholders(file.text, isRoot, endpointUrl))
        ELSE IF again.thrown THEN again
        ELSE end(again, ErrorBody(m_failed_to_load))

SenderRequests ==
    Requests \cup PageLoadRequests
    \cup { Request(m, s_base_app \o Tail(importMapSenderEndpoint), JStr(o_app), JUndefined) :
             m \in { "GET", "HEAD", "POST" } }

InitSender ==
    /\ options \in Options
    /\ config \in Configs
    /\ importMap = InitialImportMap
    /\ importMapReadyEvent \in { "Unset", "Set" }
    /\ inflight = EmptyBag
    /\ out = NoOut
    /\ probe = NoProbe
    /\ externalizedModules = {}
    /\ cssMap = NoCssMap
    /\ meta = NoMeta
    /\ browser = NoBrowser

\* A request that the receiver's route does not match and the blocking
\* middleware has passed on reaches the layer of the sender script, which is
\* registered on a root instance only.
ServeSender ==
    /\ \E req \in SenderRequests, file \in SenderFiles :
          /\ ~RouteMatches(importMapEndpointUrl(config.base), req.url)
          /\ IF options.isRoot /\ RouteMatches(importMapSenderUrl(config.base), req.url)
             THEN LET res == senderMiddleware(file, options.isRoot,
                                              importMapEndpointUrl(config.base))
                  IN  out' = [ Out("Sender", IF res.thrown THEN "thrown" ELSE "response",
                                   req, res.status, res.body, "none", <<>>,
                                   importMapReadyEvent, res.effects)
                               EXCEPT !.headers = res.headers ]
             ELSE out' = Out("Sender", "next", req, 0, <<>>, "none", <<>>,
                             importMapReadyEvent, <<>>)
    /\ UNCHANGED << options, config, importMap, importMapReadyEvent, inflight, probe,
                    externalizedModules, cssMap, meta, browser >>

SpecSender == InitSender /\ [][ServeSender]_vars

(***************************************************************************)
(* The CSS plug-in: renderChunk collects the CSS files of the entry chunks *)
(***************************************************************************)

\* The chunks of a build by file name: two that can be entry points and one
\* that is not, and a module that is external (no chunk of the build).
ChunkOrder == << "e1.js", "e2.js", "s.js" >>
ChunkFiles == { ChunkOrder[j] : j \in 1..Len(ChunkOrder) }
ExternalModule == "ext"
\* A module that is external too and whose id is the name of a member every
\* object inherits from Object.prototype.
InheritedModule == "constructor"
ExternalModules == { ExternalModule, InheritedModule }
CssFiles == << "x.css", "y.css" >>

\* chunk.name
NameOf(fileName) ==
    CASE fileName = "e1.js" -> "e1"
      [] fileName = "e2.js" -> "e2"
      [] OTHER -> "s"

\* A RenderedChunk: fileName, name, isEntry, imports and
\* viteMetadata.importedCss, in the order of iteration.
Chunk(fileName, isEntry, imports, importedCss) ==
    [fileName |-> fileName, name |-> NameOf(fileName), isEntry |-> isEntry,
     imports |-> imports, importedCss |-> importedCss]

\* The members of a set in the order of a sequence
InOrder(order, members) == SelectSeq(order, LAMBDA x : x \in members)

\* The builds: e1.js is an entry point that also imports an external module,
\* e2.js is an entry point or not, s.js is not; each chunk imports any of the
\* other chunks and any of the CSS files.
Builds ==
    { [ f \in ChunkFiles |->
          Chunk(f, f = "e1.js" \/ (f = "e2.js" /\ e2),
                InOrder(ChunkOrder, imp[f])
                    \o (IF f = "e1.js" THEN << ext >> ELSE << >>),
                InOrder(CssFiles, css[f])) ] :
        e2 \in BOOLEAN,
        ext \in ExternalModules,
        imp \in { i \in [ ChunkFiles -> SUBSET ChunkFiles ] : \A f \in ChunkFiles : f \notin i[f] },
        css \in [ ChunkFiles -> SUBSET { CssFiles[j] : j \in 1..Len(CssFiles) } ] }

\* cssFiles.add(css) for each css of a list, cssFiles in order of insertion
RECURSIVE addAll(_, _)
addAll(cssFiles, list) ==
    IF list = << >> THEN cssFiles
    ELSE addAll(IF SeqIncludes(cssFiles, Head(list)) THEN cssFiles
                ELSE Append(cssFiles, Head(list)),
                Tail(list))

\* Only the chunk's own CSS and that of the chunks it imports directly.
collectDirectOnly(fileName, st, chunks) ==
    IF fileName \notin DOMAIN chunks THEN st
    ELSE LET own == addAll(st.cssFiles, chunks[fileName].importedCss)
             direct == [ j \in 1..Len(chunks[fileName].imports) |->
                           IF chunks[fileName].imports[j] \in DOMAIN chunks
                           THEN chunks[chunks[fileName].imports[j]].importedCss
                           ELSE << >> ]
             flat[j \in 0..Len(direct)] ==
                 IF j = 0 THEN own ELSE addAll(flat[j - 1], direct[j])
         IN  [ cssFiles |-> flat[Len(direct)],
               thrown |-> FALSE,
               processedImports |-> st.processedImports
                   \cup { chunks[fileName].imports[j] : j \in 1..Len(chunks[fileName].imports) } ]

\* meta.chunks[imp]: "chunk" for a chunk of the build, "inherited" for what
\* the object meta.chunks inherits under that name, "undefined" otherwise.
chunkAt(chunks, imp) ==
    IF imp \in DOMAIN chunks THEN "chunk"
    ELSE IF imp = InheritedModule THEN "inherited"
    ELSE "undefined"

\* collectCssFiles(meta.chunks[fileName]) and its loop over curChunk.imports
\* from import i on; st holds cssFiles and processedImports, and thrown once
\* an error has been raised.
RECURSIVE collectCssFiles(_, _, _)
RECURSIVE collectImports(_, _, _, _)
collectImports(imports, i, st, chunks) ==
    IF st.thrown \/ i > Len(imports) THEN st
    ELSE IF imports[i] \in st.processedImports
    THEN collectImports(imports, i + 1, st, chunks)
    ELSE collectImports(imports, i + 1,
                        collectCssFiles(imports[i],
                                        [ st EXCEPT !.processedImports = @ \cup { imports[i] } ],
                                        chunks),
                        chunks)

\* What meta.chunks inherits is no chunk: it has no viteMetadata, and no
\* imports to iterate over, for (let imp of undefined) throws a TypeError.
collectCssFiles(fileName, st, chunks) ==
    IF chunkAt(chunks, fileName) = "undefined" THEN st
    ELSE IF chunkAt(chunks, fileName) = "inherited" THEN [ st EXCEPT !.thrown = TRUE ]
    ELSE collectImports(chunks[fileName].imports, 1,
                        [ st EXCEPT !.cssFiles = addAll(@, chunks[fileName].importedCss) ],
                        chunks)

InitCss ==
    /\ options = [ isRoot |-> TRUE, allowedOrigins |-> <<>>, pathExceptions |-> <<>> ]
    /\ config = [ base |-> s_slash, command |-> "build" ]
    /\ importMap = InitialImportMap
    /\ importMapReadyEvent = "Unset"
    /\ inflight = EmptyBag
    /\ out = NoOut
    /\ probe = NoProbe
    /\ externalizedModules = {}
    /\ cssMap = NoCssMap
    /\ meta \in { [chunks |-> b, rendered |-> {}, failed |-> {}] : b \in Builds }
    /\ browser = NoBrowser

\* renderChunk.handler(code, chunk, options, meta) for a chunk of the build:
\* it completes (rendered), or it throws what the collection threw (failed).
RenderChunk ==
    /\ \E fileName \in DOMAIN meta.chunks \ (meta.rendered \cup meta.failed) :
          LET chunk == meta.chunks[fileName]
              collected == collectCssFiles(fileName,
                                           [cssFiles |-> << >>, processedImports |-> {},
                                            thrown |-> FALSE],
                                           meta.chunks)
          IN  IF chunk.isEntry /\ collected.thrown
              THEN /\ cssMap' = cssMap
                   /\ meta' = [ meta EXCEPT !.failed = @ \cup { fileName } ]
              ELSE /\ cssMap' = IF chunk.isEntry
                                THEN (chunk.name :> collected.cssFiles) @@ cssMap
                                ELSE cssMap
                   /\ meta' = [ meta EXCEPT !.rendered = @ \cup { fileName } ]
    /\ UNCHANGED << options, config, importMap, importMapReadyEvent, inflight, out, probe,
                    externalizedModules, browser >>

SpecCss == InitCss /\ [][RenderChunk]_vars

(***************************************************************************)
(* The import map plug-in: buildImportMap merges the import map files      *)
(***************************************************************************)

MaxFiles == 3

k_c == << "@", "c" >>
scope_s == << "/", "s", "/" >>
scope_t == << "/", "t", "/" >>
v_1 == << "1" >>
v_2 == << "2" >>

\* What the import map files hold once parsed: imports absent, empty or with
\* one or two specifiers, scopes absent or with one or two scope keys.
FileImports ==
    { JUndefined, JObj(<< >>), JObj(<< Entry(k_a, JStr(v_1)) >>),
      JObj(<< Entry(k_b, JStr(v_2)), Entry(k_a, JStr(v_2)) >>) }

FileScopes ==
    { JUndefined,
      JObj(<< Entry(scope_s, JObj(<< Entry(k_a, JStr(v_1)) >>)) >>),
      JObj(<< Entry(scope_t, JObj(<< Entry(k_a, JStr(v_2)) >>)),
              Entry(scope_s, JObj(<< Entry(k_c, JStr(v_2)), Entry(k_a, JStr(v_2)) >>)) >>) }

\* JSON.parse of the content of a file
ImportMapFile(imports, scopes) ==
    JObj((IF imports = JUndefined THEN << >> ELSE << Entry(s_imports, imports) >>)
         \o (IF scopes = JUndefined THEN << >> ELSE << Entry(s_scopes, scopes) >>))

ImportMapFiles == { ImportMapFile(i, s) : i \in FileImports, s \in FileScopes }

RECURSIVE FileLists(_)
FileLists(n) ==
    IF n = 0 THEN { << >> }
    ELSE FileLists(n - 1)
         \cup { Append(l, f) : l \in { m \in FileLists(n - 1) : Len(m) = n - 1 },
                               f \in ImportMapFiles }

\* for (let key of Object.keys(source)) target[key] = source[key], from key j on
RECURSIVE assignFrom(_, _, _)
assignFrom(target, source, j) ==
    IF j > Len(source) THEN target
    ELSE assignFrom(ObjSet(target, source[j].k, source[j].v), source, j + 1)

\* { ...a, ...b }: spreading undefined or null adds nothing
Spread(a, b) ==
    JObj(assignFrom(assignFrom(<< >>, IF a.t \in { "undefined", "null" } THEN << >>
                                      ELSE ObjectEntries(a), 1),
                    IF b.t \in { "undefined", "null" } THEN << >> ELSE ObjectEntries(b), 1))

\* The loop over Object.keys(map.scopes), from key j on
RECURSIVE mergeScopesFrom(_, _, _)
mergeScopesFrom(scopes, mapScopes, j) ==
    IF j > Len(ObjectKeys(mapScopes)) THEN scopes
    ELSE LET key == ObjectKeys(mapScopes)[j]
         IN  mergeScopesFrom(ObjSet(scopes, key,
                                    Spread(GetProp(JObj(scopes), key), GetProp(mapScopes, key))),
                             mapScopes, j + 1)

\* The loop of buildImportMap from map i on; Object.keys(undefined) throws.
RECURSIVE buildFrom(_, _, _, _)
buildFrom(maps, i, imports, scopes) ==
    IF i > Len(maps)
    THEN [ thrown |-> FALSE,
           v |-> JObj(<< Entry(s_imports, JObj(imports)), Entry(s_scopes, JObj(scopes)) >>) ]
    ELSE IF GetProp(maps[i], s_imports).t \in { "undefined", "null" }
    THEN [ thrown |-> TRUE, v |-> JUndefined ]
    ELSE buildFrom(maps, i + 1,
                   assignFrom(imports, ObjectEntries(GetProp(maps[i], s_imports)), 1),
                   IF Truthy(GetProp(maps[i], s_scopes))
                   THEN mergeScopesFrom(scopes, GetProp(maps[i], s_scopes), 1)
                   ELSE scopes)

\* buildImportMap(maps)
buildImportMap(maps) == buildFrom(maps, 1, << >>, << >>)

\* options.importMaps holds the parsed contents of the configured files.
InitIm ==
    /\ options \in { [ importMaps |-> l ] : l \in FileLists(MaxFiles) \ { << >> } }
    /\ config = [ base |-> s_slash, command |-> "serve" ]
    /\ importMap = InitialImportMap
    /\ importMapReadyEvent = "Unset"
    /\ inflight = EmptyBag
    /\ out = NoOut
    /\ probe = NoProbe
    /\ externalizedModules = {}
    /\ cssMap = NoCssMap
    /\ meta = NoMeta
    /\ browser = NoBrowser

\* rootIndexTransform(html): the import map to inject is built.
RootIndexTransform ==
    /\ probe.hook = "none"
    /\ probe' = [ probe EXCEPT !.hook = "transformIndexHtml",
                               !.value = buildImportMap(options.importMaps).v,
                               !.thrown = buildImportMap(options.importMaps).thrown ]
    /\ UNCHANGED << options, config, importMap, importMapReadyEvent, inflight, out,
                    externalizedModules, cssMap, meta, browser >>

SpecIm == InitIm /\ [][RootIndexTransform]_vars

(***************************************************************************)
(* The sender script in the browser (import-map-sender.ts)                 *)
(***************************************************************************)

MaxScripts == 2

s_http == << "h", "t", "t", "p", ":", "/", "/" >>
u_local_a == o_local \o << "/", "a", ".", "j", "s" >>
u_local_c == o_local \o << "/", "c", ".", "j", "s" >>
o_loopback == s_http \o s_127 \o << ":", "6" >>
u_loopback_b == o_loopback \o << "/", "b", ".", "j", "s" >>
u_relative == << "/", "r", "e", "l", ".", "j", "s" >>
u_cdn == o_app \o << "/", "l", "o", "c", "a", "l", "h", "o", "s", "t", ".", "j", "s" >>

\* new URL(url) for an absolute http URL without credentials and with a port
\* other than 80; any other text of the inputs is a relative URL, for which
\* the constructor throws.
Url(url) ==
    IF ~StartsWith(url, s_http) THEN [ok |-> FALSE, protocol |-> << >>, host |-> << >>,
                                      hostname |-> << >>]
    ELSE LET rest == Slice(url, Len(s_http))
             hostEnd == IF Includes(rest, s_slash)
                        THEN CHOOSE i \in 0..Len(rest) :
                                /\ rest[i + 1] = "/"
                                /\ \A j \in 1..i : rest[j] # "/"
                        ELSE Len(rest)
             host == SubSeq(rest, 1, hostEnd)
             nameEnd == IF Includes(host, << ":" >>)
                        THEN CHOOSE i \in 0..Len(host) :
                                /\ host[i + 1] = ":"
                                /\ \A j \in 1..i : host[j] # ":"
                        ELSE Len(host)
         IN  [ok |-> TRUE, protocol |-> << "h", "t", "t", "p", ":" >>, host |-> host,
              hostname |-> SubSeq(host, 1, nameEnd)]

\* The textContent of the import map scripts of a page: only imports (a
\* module on localhost), only scopes, neither, imports with integrity (a
\* module on 127.0.0.1), a truncated text, an empty text, imports with a
\* relative URL, a second module on localhost and a module on a CDN, and
\* imports whose value is an object.
ScriptTexts ==
    { JsonStringify(JObj(<< Entry(s_imports, JObj(<< Entry(k_a, JStr(u_local_a)) >>)) >>)),
      JsonStringify(JObj(<< Entry(s_scopes,
                                  JObj(<< Entry(s_slash, JObj(<< Entry(k_a, JStr(u_relative)) >>)) >>)) >>)),
      JsonStringify(JObj(<< >>)),
      JsonStringify(JObj(<< Entry(s_imports, JObj(<< Entry(k_b, JStr(u_loopback_b)) >>)),
                            Entry(s_integrity, JObj(<< >>)) >>)),
      << LBrace, TStr(s_imports) >>,
      << >>,
      JsonStringify(JObj(<< Entry(s_imports,
                                  JObj(<< Entry(k_b, JStr(u_relative)),
                                          Entry(<< "@", "c" >>, JStr(u_local_c)),
                                          Entry(<< "@", "d" >>, JStr(u_cdn)) >>)) >>)),
      JsonStringify(JObj(<< Entry(s_imports,
                                  JObj(<< Entry(k_a, JObj(<< Entry(s_toString, JNum(<< "1" >>)) >>)) >>)) >>)) }

RECURSIVE ScriptLists(_)
ScriptLists(n) ==
    IF n = 0 THEN { << >> }
    ELSE ScriptLists(n - 1)
         \cup { Append(l, t) : l \in { m \in ScriptLists(n - 1) : Len(m) = n - 1 },
                               t \in ScriptTexts }

\* Object.assign(target, source)
ObjectAssign(target, source) == JObj(assignFrom(target.e, ObjectEntries(source), 1))

\* The forEach of extractImportMap from script j on: the combined map, or
\* thrown when JSON.parse throws.
RECURSIVE extractFrom(_, _, _)
extractFrom(scripts, j, combined) ==
    IF j > Len(scripts) THEN [thrown |-> FALSE, v |-> combined]
    ELSE LET parsed == JsonParse(IF scripts[j] = << >> THEN << LBrace, RBrace >> ELSE scripts[j])
             importMapData == parsed.v
             imports == GetProp(combined, s_imports)
             scopes == GetProp(combined, s_scopes)
         IN  IF ~parsed.ok \/ importMapData.t \in { "null", "undefined" }
             THEN [thrown |-> TRUE, v |-> JNull]
             ELSE extractFrom(scripts, j + 1,
                     JObj(<< Entry(s_imports,
                                   IF Truthy(GetProp(importMapData, s_imports))
                                   THEN ObjectAssign(imports, GetProp(importMapData, s_imports))
                                   ELSE imports),
                             Entry(s_scopes,
                                   IF Truthy(GetProp(importMapData, s_scopes))
                                   THEN ObjectAssign(scopes, GetProp(importMapData, s_scopes))
                                   ELSE scopes) >>))

\* The scripts that do not parse are left out.
extractSkippingFailures(scripts) ==
    LET good == SelectSeq(scripts, LAMBDA t : t = << >> \/ JsonParse(t).ok)
        r == extractFrom(good, 1, JObj(<< Entry(s_imports, JObj(<< >>)),
                                          Entry(s_scopes, JObj(<< >>)) >>))
    IN  IF Len(scripts) = 0 THEN JNull ELSE r.v

\* extractImportMap(): null or the combined import map
extractImportMap(scripts) ==
    LET r == extractFrom(scripts, 1, JObj(<< Entry(s_imports, JObj(<< >>)),
                                             Entry(s_scopes, JObj(<< >>)) >>))
    IN  IF Len(scripts) = 0 THEN JNull
        ELSE IF r.thrown THEN JNull
        ELSE r.v

\* origins.add(origin), origins in order of insertion
SetAdd(origins, origin) ==
    IF SeqIncludes(origins, origin) THEN origins ELSE Append(origins, origin)

\* The forEach of getLocalhostOrigins from value j on
RECURSIVE localhostOriginsFrom(_, _, _)
localhostOriginsFrom(values, j, origins) ==
    IF j > Len(values) THEN origins
    ELSE LET url == values[j].v
             urlObj == Url(url.s)
         IN  localhostOriginsFrom(values, j + 1,
                IF /\ url.t = "str"
                   /\ Includes(url.s, s_localhost)
                   /\ urlObj.ok
                   /\ urlObj.hostname \in { s_localhost, s_127 }
                THEN SetAdd(origins, urlObj.protocol \o << "/", "/" >> \o urlObj.host)
                ELSE origins)

\* getLocalhostOrigins(importMap)
getLocalhostOrigins(map) ==
    IF ~Truthy(GetProp(map, s_imports)) THEN << >>
    ELSE localhostOriginsFrom(ObjectEntries(GetProp(map, s_imports)), 1, << >>)

RECURSIVE addAllOrigins(_, _)
addAllOrigins(origins, more) ==
    IF more = << >> THEN origins ELSE addAllOrigins(SetAdd(origins, Head(more)), Tail(more))

\* The fetch of sendImportMapToServer(origin, importMap): it has not settled.
Post(origin, postEndpoint, map) ==
    [origin |-> origin, url |-> origin \o postEndpoint, method |-> "POST",
     body |-> JsonStringify(map), settled |-> "pending"]

\* initImportMapSender(): the fetches it starts, in order
initImportMapSender(scripts, origin, isRoot, postEndpoint) ==
    LET map == extractImportMap(scripts)
        origins == addAllOrigins(IF isRoot THEN << origin >> ELSE << >>,
                                 getLocalhostOrigins(map))
    IN  IF map = JNull THEN << >>
        ELSE [ j \in 1..Len(origins) |-> Post(origins[j], postEndpoint, map) ]

\* A page with up to MaxScripts import map scripts has loaded the sender
\* script; the page is served from localhost or from another host.
InitBrowser ==
    /\ options = [ isRoot |-> TRUE, allowedOrigins |-> << s_example_com >>,
                   pathExceptions |-> <<>> ]
    /\ config = [ base |-> s_slash, command |-> "serve" ]
    /\ importMap = InitialImportMap
    /\ importMapReadyEvent = "Unset"
    /\ inflight = EmptyBag
    /\ out = NoOut
    /\ probe = NoProbe
    /\ externalizedModules = {}
    /\ cssMap = NoCssMap
    /\ meta = NoMeta
    /\ browser \in { [ NoBrowser EXCEPT !.scripts = l, !.origin = o, !.isRoot = r,
                                        !.postEndpoint = importMapEndpoint ] :
                     l \in ScriptLists(MaxScripts), o \in { o_local, o_app }, r \in BOOLEAN }

\* The sender script runs: initImportMapSender()
RunSender ==
    /\ ~browser.ran
    /\ browser' = [ browser EXCEPT
                      !.ran = TRUE,
                      !.posts = initImportMapSender(browser.scripts, browser.origin,
                                                    browser.isRoot, browser.postEndpoint) ]
    /\ UNCHANGED << options, config, importMap, importMapReadyEvent, inflight, out, probe,
                    externalizedModules, cssMap, meta >>

\* A fetch settles: it fails, or the dev server it reaches answers, a server
\* that still holds the initial mapping and receives the page's origin in
\* the Origin header.
Settle ==
    /\ \E j \in 1..Len(browser.posts) :
          /\ browser.posts[j].settled = "pending"
          /\ \E answered \in BOOLEAN :
                LET status == IF ~isOriginAllowed(JStr(browser.origin), options.allowedOrigins)
                              THEN 403
                              ELSE OnEndResult(browser.posts[j].body, InitialImportMap,
                                               "Unset").status
                IN  browser' = [ browser EXCEPT
                                   !.posts[j].settled =
                                       IF ~answered THEN "failed"
                                       ELSE IF status = 200 THEN "200"
                                       ELSE IF status = 400 THEN "400" ELSE "403" ]
    /\ UNCHANGED << options, config, importMap, importMapReadyEvent, inflight, out, probe,
                    externalizedModules, cssMap, meta >>

NextBrowser == RunSender \/ Settle

SpecBrowser == InitBrowser /\ [][NextBrowser]_vars

(***************************************************************************)
(* What the properties below speak of                                      *)
(***************************************************************************)

\* The position of the first occurrence of p in s, counted from 0, or -1.
IndexOf(s, p) ==
    IF Includes(s, p)
    THEN CHOOSE i \in 0..(Len(s) - Len(p)) :
            /\ SubSeq(s, i + 1, i + Len(p)) = p
            /\ \A j \in 0..(i - 1) : SubSeq(s, j + 1, j + Len(p)) # p
    ELSE -1

\* The host of a URL or of a serialised origin: what stands between "://" and
\* the next "/", without the port.
HostOf(url) ==
    LET afterScheme == IF IndexOf(url, << ":", "/", "/" >>) < 0 THEN url
                       ELSE Slice(url, IndexOf(url, << ":", "/", "/" >>) + 3)
        authority == IF IndexOf(afterScheme, s_slash) < 0 THEN afterScheme
                     ELSE SubSeq(afterScheme, 1, IndexOf(afterScheme, s_slash))
    IN  IF authority # <<>> /\ Head(authority) = "[" /\ IndexOf(authority, << "]" >>) >= 0
        THEN SubSeq(authority, 1, IndexOf(authority, << "]" >>) + 1)
        ELSE IF IndexOf(authority, << ":" >>) < 0 THEN authority
        ELSE SubSeq(authority, 1, IndexOf(authority, << ":" >>))

\* The origin a POST is judged by: the Origin header, else the Referer header.
CallerOrigin(req) == IF req.origin.t = "str" /\ req.origin.s # <<>> THEN req.origin ELSE req.referer

\* The caller's origin is a loopback address or contains an allow-list entry.
OriginPermitted(req) ==
    /\ CallerOrigin(req).t = "str"
    /\ \/ HostOf(CallerOrigin(req).s) \in { s_localhost, s_127, s_v6loop }
       \/ \E j \in 1..Len(options.allowedOrigins) :
             Includes(CallerOrigin(req).s, options.allowedOrigins[j])

\* {"error":"Origin not allowed"}
Text403 == << LBrace, TStr(s_error), Colon, TStr(m_origin_not_allowed), RBrace >>

\* {"error":"Invalid import map data"}
Text400 == << LBrace, TStr(s_error), Colon, TStr(m_invalid), RBrace >>

\* The set of own property keys of a value.
KeySet(v) == { v.e[j].k : j \in 1..Len(v.e) }

\* A non-null object whose keys are exactly imports and scopes.
ShapeOk(v) == v.t \in { "obj", "arr" } /\ KeySet(v) = { s_imports, s_scopes }

\* The text parses as JSON and the value has the shape of an import map.
ValidBody(text) == JsonParse(text).ok /\ ShapeOk(JsonParse(text).v)

\* {"success":true,"imports":n}
Text200(n) ==
    << LBrace, TStr(s_success), Colon, TTrue, Comma, TStr(s_imports), Colon,
       TNum(IndexKey(n)), RBrace >>

\* The number of keys of the imports object of a posted import map.
PostedImportCount(text) ==
    LET imports == GetProp(JsonParse(text).v, s_imports)
    IN  IF imports.t = "obj" THEN Cardinality(KeySet(imports)) ELSE 0

\* The requests in flight that are in the given phase, with repetitions.
InPhase(slots, phase) ==
    LET hs == { h \in BagToSet(slots) : h.phase = phase }
    IN  IF hs = {} THEN 0 ELSE BagCardinality([ h \in hs |-> CopiesIn(h, slots) ])

(***************************************************************************)
(* C1.  A POST to the receiver passes the origin check only if the         *)
(* caller's origin (the Origin header, else the Referer) has a loopback    *)
(* host (localhost, 127.0.0.1, ::1) or contains an allowedOrigins entry;   *)
(* every other POST is answered 403 {"error":"Origin not allowed"}.        *)
(* The code tests containment of "localhost", "127.0.0.1" and "[::1]" in   *)
(* the whole origin string, so the statement fails for an origin such as   *)
(* http://localhost.evil.example.                                          *)
(***************************************************************************)
C1_OriginCheck ==
    (out.by = "Receive" /\ out.req.method = "POST" /\ ~OriginPermitted(out.req))
        => (out.kind = "response" /\ out.status = 403 /\ out.body = Text403)

(***************************************************************************)
(* C2.  The stored mapping and the gate change only in the step that       *)
(* handles the end of a POST whose body parses as JSON and passes shape    *)
(* validation; a step that answers 403, 400, 405 or an OPTIONS request, a  *)
(* step of the admission filter, a resumption and a wait timeout leave     *)
(* both unchanged.  (Fails for a POST answered 400 after the mapping was   *)
(* stored: see C4.)                                                        *)
(***************************************************************************)
C2_FrameEffect ==
    [][ (importMap' # importMap \/ importMapReadyEvent' # importMapReadyEvent)
            => /\ out'.by = "OnEnd"
               /\ out'.req.method = "POST"
               /\ ValidBody(out'.sent)
               /\ out'.status \notin { 400, 403, 405 } ]_vars

(***************************************************************************)
(* C3.  validateIm accepts a parsed JSON value if and only if it is a      *)
(* non-null object whose key set is exactly {imports, scopes}; the values  *)
(* under the two keys are not examined.                                    *)
(***************************************************************************)
C3_ValidateShape == probe.done => (probe.accepted <=> ShapeOk(probe.value))

\* An object accepted although its imports is null and its scopes a string.
C3_Witness ==
    /\ probe.done
    /\ probe.accepted
    /\ GetProp(probe.value, s_imports) = JNull
    /\ GetProp(probe.value, s_scopes) = JStr(v_u1)

(***************************************************************************)
(* C4.  A POST from an allowed origin whose body is not valid JSON, or     *)
(* whose parsed value fails shape validation, is answered 400              *)
(* {"error":"Invalid import map data"}; and every 400 response leaves the  *)
(* stored mapping and the gate exactly as they were before the request.    *)
(* The second half fails: a body such as                                   *)
(* {"imports":{"@a":{"toString":1}},"scopes":{}} passes validation, is     *)
(* stored, and then the logging of its entries throws, so the catch        *)
(* answers 400 with the mapping already replaced.                          *)
(***************************************************************************)
C4_Rejected ==
    [][ out'.by = "OnEnd"
            => /\ ~ValidBody(out'.sent) => (out'.status = 400 /\ out'.body = Text400)
               /\ out'.status = 400 => /\ importMap' = importMap
                                       /\ importMapReadyEvent' = importMapReadyEvent ]_vars

(***************************************************************************)
(* C5.  A POST from an allowed origin with a valid {imports, scopes} body  *)
(* is answered 200 {"success":true,"imports":n}, n the number of keys of   *)
(* the posted imports object, and when the response is written the stored  *)
(* mapping is the posted value and the gate is Set.  (Fails for the body   *)
(* of C4, which is valid and answered 400 with the gate left Unset.)       *)
(***************************************************************************)
C5_Accepted ==
    [][ (out'.by = "OnEnd" /\ ValidBody(out'.sent))
            => /\ out'.status = 200
               /\ out'.body = Text200(PostedImportCount(out'.sent))
               /\ importMap' = JsonParse(out'.sent).v
               /\ importMapReadyEvent' = "Set" ]_vars

(***************************************************************************)
(* C6.  The stored mapping is the initial {imports:{}} until a POST        *)
(* succeeds, and from then on the whole payload of the most recent POST    *)
(* answered 200: each step either answers 200 and stores that payload in   *)
(* full, or leaves the mapping as it was.  (Fails for the body of C4: a    *)
(* POST answered 400 alters the mapping.)                                  *)
(***************************************************************************)
C6_LastPayload ==
    /\ importMap = InitialImportMap
    /\ [][ importMap' = IF out'.by = "OnEnd" /\ out'.status = 200
                        THEN JsonParse(out'.sent).v
                        ELSE importMap ]_vars

(***************************************************************************)
(* C7.  While two or more POSTs are in flight with their chunks            *)
(* interleaved, every step leaves the stored mapping either as it was or   *)
(* as the complete payload of one successful POST (one answered 200).      *)
(* (Fails for the body of C4: the mapping becomes the payload of a POST    *)
(* answered 400.  The value stored is nevertheless always the whole body   *)
(* of one request: C7_WholePayload.)                                       *)
(***************************************************************************)
C7_Interleaved ==
    [][ (InPhase(inflight, "reading") >= 2)
            => \/ importMap' = importMap
               \/ /\ out'.by = "OnEnd"
                  /\ out'.status = 200
                  /\ importMap' = JsonParse(out'.sent).v ]_vars

\* The part of C7 that holds: the mapping is replaced only by the parse of
\* everything one request sent, never by a mixture or a partial body.
C7_WholePayload ==
    [][ importMap' # importMap
            => /\ out'.by = "OnEnd"
               /\ \E chunks \in Bodies : out'.sent = Join(chunks, <<>>)
               /\ importMap' = JsonParse(out'.sent).v ]_vars

\* Some suspended request was released in this step.
Released == InPhase(inflight', "ok") > InPhase(inflight, "ok")

\* "store" comes before "signal" in what a step did.
StoreThenSignal(effects) ==
    \E i, j \in 1..Len(effects) : i < j /\ effects[i] = "store" /\ effects[j] = "signal"

(***************************************************************************)
(* C8.  The gate is signaled strictly after the mapping has been replaced  *)
(* by the triggering POST: a step that sets the gate, or that releases a   *)
(* suspended request, is the end of a POST, it stores before it signals,   *)
(* and it leaves the mapping equal to the payload of that POST; so no      *)
(* request resumes with Ready and no admission check sees the gate Set     *)
(* while the mapping is the one from before that POST.                     *)
(***************************************************************************)
C8_StoreBeforeSignal ==
    [][ ((importMapReadyEvent = "Unset" /\ importMapReadyEvent' = "Set") \/ Released)
            => /\ out'.by = "OnEnd"
               /\ StoreThenSignal(out'.effects)
               /\ importMap' = JsonParse(out'.sent).v ]_vars

\* A POST has set the gate and released a suspended request, with the mapping
\* replaced by its payload.
C8_Witness ==
    /\ out.by = "OnEnd"
    /\ out.gate = "Unset"
    /\ importMapReadyEvent = "Set"
    /\ InPhase(inflight, "ok") >= 1
    /\ importMap = JsonParse(out.sent).v
    /\ importMap # InitialImportMap

(***************************************************************************)
(* C9.  The gate is a one-way latch: it starts Unset, and once Set it      *)
(* stays Set under every sequence of requests; a second successful POST    *)
(* finds it Set and leaves it Set.                                         *)
(***************************************************************************)
C9_Latch ==
    /\ importMapReadyEvent = "Unset"
    /\ [][ importMapReadyEvent = "Set" => importMapReadyEvent' = "Set" ]_vars

\* A second successful POST has signaled the gate that was already Set.
C9_Witness ==
    /\ out.by = "OnEnd"
    /\ out.status = 200
    /\ out.gate = "Set"
    /\ importMapReadyEvent = "Set"

(***************************************************************************)
(* C10.  One successful POST releases all the requests suspended on the    *)
(* gate at that moment: after the step that answers 200 none is left       *)
(* waiting and each request that was waiting is released; a released       *)
(* request never times out, it leaves only by resuming with the result     *)
(* that is not 'timed-out'.                                                *)
(***************************************************************************)
C10_ReleaseAll ==
    [][ /\ (out'.by = "OnEnd" /\ out'.status = 200)
            => /\ InPhase(inflight', "waiting") = 0
               /\ InPhase(inflight', "ok")
                     = InPhase(inflight, "ok") + InPhase(inflight, "waiting")
        /\ InPhase(inflight', "ok") < InPhase(inflight, "ok")
            => (out'.by = "Resume" /\ out'.wait = "ok")
        /\ InPhase(inflight', "timed-out") > InPhase(inflight, "timed-out")
            => InPhase(inflight', "waiting") < InPhase(inflight, "waiting") ]_vars

\* One POST has released two suspended requests at once.
C10_Witness ==
    /\ out.by = "OnEnd"
    /\ out.status = 200
    /\ InPhase(inflight, "ok") >= 2
    /\ InPhase(inflight, "waiting") = 0

(***************************************************************************)
(* C11.  Every request the admission filter blocks proceeds to the next    *)
(* handler in the end: it is released when an import map is received, or   *)
(* its wait times out, and either way the middleware calls next() without  *)
(* writing a response.  No blocked request waits forever, also when no     *)
(* POST is ever made.                                                      *)
(***************************************************************************)
C11_FailOpen ==
    /\ (Watched(inflight) # {}) ~> (Watched(inflight) = {})
    /\ [][ (Watched(inflight) # {} /\ Watched(inflight') = {})
              => /\ out'.by = "Resume"
                 /\ out'.watched
                 /\ out'.kind = "next"
                 /\ out'.status = 0
                 /\ out'.wait \in { "ok", "timed-out" } ]_vars

\* The followed request has proceeded after its wait timed out, with no
\* import map ever received.
C11_Witness ==
    /\ out.by = "Resume"
    /\ out.wait = "timed-out"
    /\ out.watched
    /\ importMapReadyEvent = "Unset"
    /\ importMap = InitialImportMap

\* The fixed exception list, as a set of paths.
ExceptionPaths ==
    { stockPathExceptions(config.base, options.isRoot)[j] :
        j \in 1..Len(stockPathExceptions(config.base, options.isRoot)) }

\* One of the four reasons to let the request of the last step through.
PassesThrough ==
    \/ config.command # "serve"
    \/ out.req.method # "GET"
    \/ out.gate = "Set"
    \/ out.req.url \in ExceptionPaths

NeverBlockedPaths ==
    { config.base,
      config.base \o << "i", "n", "d", "e", "x", ".", "h", "t", "m", "l" >>,
      config.base \o << "@", "v", "i", "t", "e", "/", "c", "l", "i", "e", "n", "t" >> }
    \cup (IF options.isRoot
          THEN { config.base \o Tail(importMapSenderEndpoint) }
          ELSE {})

(***************************************************************************)
(* C13.  For every base, the default / included, a GET for {base}, for     *)
(* {base}index.html or for {base}@vite/client is never blocked, whatever   *)
(* the gate; for a root instance the sender script is never blocked        *)
(* either.  It fails: joinPaths strips the slashes of the base, so with    *)
(* base / the exceptions are "index.html", "" and "@vite/client", which no *)
(* request URL equals, and with base /app/ the document root /app/ is no   *)
(* exception (the list holds /app).                                        *)
(***************************************************************************)
C13_NeverBlocked ==
    (out.by = "Filter" /\ out.req.method = "GET" /\ out.req.url \in NeverBlockedPaths)
        => out.kind = "next"

(***************************************************************************)
(* C14.  A GET for a path listed in the pathExceptions option is never     *)
(* blocked while the gate is Unset.  It fails: the option is declared in   *)
(* PluginOptions but importMapPlugin never reads it, so the listed path is *)
(* blocked like any other.                                                 *)
(***************************************************************************)
C14_PathExceptions ==
    (/\ out.by = "Filter"
     /\ out.req.method = "GET"
     /\ out.gate = "Unset"
     /\ SeqIncludes(options.pathExceptions, out.req.url))
        => out.kind = "next"

(***************************************************************************)
(* C15.  Once a POST has succeeded no later request is blocked: a request  *)
(* that reaches the admission filter while the gate is Set is passed on at *)
(* once, whatever its path, and no request is waiting while the gate is    *)
(* Set.                                                                    *)
(***************************************************************************)
C15_OpenOnceSet ==
    /\ [](importMapReadyEvent = "Set" => InPhase(inflight, "waiting") = 0)
    /\ [][ (importMapReadyEvent = "Set" /\ out'.by = "Filter")
              => (out'.kind = "next" /\ inflight' = inflight) ]_vars

\* A GET for a path that is no exception passed the filter at once with the
\* gate Set.
C15_Witness ==
    /\ out.by = "Filter"
    /\ out.kind = "next"
    /\ out.gate = "Set"
    /\ out.req.method = "GET"
    /\ out.req.url \notin ExceptionPaths

\* The receiver endpoint under the configured base: {base}__current_import_map.
ReceiverUrl == config.base \o Tail(importMapEndpoint)

(***************************************************************************)
(* C16.  While requests are suspended on the gate other requests are       *)
(* still taken, and the POST to the receiver endpoint is never held by the *)
(* gate: whatever the gate state it is answered by the receiver.  The last *)
(* part fails with the base /: the route the receiver is registered under  *)
(* is then "__current_import_map" (joinPaths, see C13), which no request   *)
(* path matches, so the POST goes past the receiver and is passed on by    *)
(* the admission filter without ever signaling the gate.                   *)
(***************************************************************************)
C16_PostReachesReceiver ==
    (/\ out.by \in { "Receive", "Filter" }
     /\ out.req.method = "POST"
     /\ out.req.url = ReceiverUrl)
        => (out.by = "Receive" /\ out.kind \in { "response", "reading" })

\* The part of C16 that holds: no POST is ever suspended on the gate, and a
\* request can arrive whenever the server has room, whoever is waiting.
C16_PostNeverHeld ==
    /\ [](\A h \in BagToSet(inflight) : h.method = "POST" => h.phase = "reading")
    /\ [](out.kind = "blocked" => out.req.method = "GET")
    /\ [](BagCardinality(inflight) < MaxInFlight => ENABLED Arrive)

\* {"error":"Method not allowed"}
Text405 == << LBrace, TStr(s_error), Colon, TStr(m_method_not_allowed), RBrace >>

\* The answer of the receiver to a request that is no POST: 200 with the
\* CORS headers and no body for OPTIONS, 405 with the Allow header otherwise.
DispatchedOnMethod ==
    /\ out.by = "Receive"
    /\ out.kind = "response"
    /\ IF out.req.method = "OPTIONS"
       THEN /\ out.status = 200
            /\ out.headers = { << "Access-Control-Allow-Origin", "*" >>,
                               << "Access-Control-Allow-Methods", "POST, OPTIONS" >>,
                               << "Access-Control-Allow-Headers", "Content-Type" >> }
            /\ out.body = <<>>
       ELSE /\ out.status = 405
            /\ << "Allow", "POST, OPTIONS" >> \in out.headers
            /\ out.body = Text405

(***************************************************************************)
(* C17.  A request to the receiver path whose method is OPTIONS is         *)
(* answered 200 with the CORS headers, without origin check or body; one   *)
(* whose method is neither POST nor OPTIONS is answered 405 with           *)
(* Allow: POST, OPTIONS and {"error":"Method not allowed"}; neither        *)
(* reaches the admission filter.  With the base / the receiver is          *)
(* registered under a route no path matches (see C13), so such a request   *)
(* does reach the admission filter.                                        *)
(***************************************************************************)
C17_MethodDispatch ==
    (/\ out.by \in { "Receive", "Filter" }
     /\ out.req.method # "POST"
     /\ out.req.url = ReceiverUrl)
        => DispatchedOnMethod

\* The part of C17 that holds: whatever the receiver middleware is called
\* with, if it is no POST it is answered as C17 says, and nothing is held.
C17_DispatchInReceiver ==
    /\ []((out.by = "Receive" /\ out.req.method # "POST") => DispatchedOnMethod)
    /\ [][ (out'.by = "Receive" /\ out'.req.method # "POST")
              => (inflight' = inflight /\ importMap' = importMap
                  /\ importMapReadyEvent' = importMapReadyEvent) ]_vars

\* The header the claim C18 says is checked: Origin when the request carries
\* it, else Referer.
HeaderChecked(req) == IF req.origin.t = "str" THEN req.origin ELSE req.referer

(***************************************************************************)
(* C18.  The origin checked for a POST is the Origin header when it is     *)
(* present, the Referer header only when Origin is absent: a POST is read  *)
(* if and only if that header passes the origin check, so an allowed       *)
(* Referer never rescues a disallowed Origin, and a POST with neither      *)
(* header is answered 403.  The code takes origin || referer, so an Origin *)
(* header that is present and empty falls back to the Referer.             *)
(***************************************************************************)
C18_OriginBeforeReferer ==
    (out.by = "Receive" /\ out.req.method = "POST")
        => /\ out.kind = "reading"
                <=> isOriginAllowed(HeaderChecked(out.req), options.allowedOrigins)
           /\ out.kind # "reading" => (out.kind = "response" /\ out.status = 403)
           /\ (out.req.origin.t # "str" /\ out.req.referer.t # "str") => out.status = 403

\* The part of C18 that holds: the same for requests whose Origin header, if
\* present, is not empty.
C18_NonEmptyOrigin ==
    (out.by = "Receive" /\ out.req.method = "POST" /\ out.req.origin # JStr(<<>>))
        => /\ out.kind = "reading"
                <=> isOriginAllowed(HeaderChecked(out.req), options.allowedOrigins)
           /\ out.kind # "reading" => (out.kind = "response" /\ out.status = 403)

\* The imports of the stored mapping, as entries in insertion order.
StoredImports == ObjectEntries(GetProp(importMap, s_imports))

\* The specifier of the last resolve call is a key of imports.
ExactKey == \E j \in 1..Len(StoredImports) : StoredImports[j].k = probe.id

\* The keys that end in '/' and are a prefix of the specifier, by position.
PrefixKeys ==
    { j \in 1..Len(StoredImports) :
        /\ StoredImports[j].k # <<>>
        /\ StoredImports[j].k[Len(StoredImports[j].k)] = "/"
        /\ Len(StoredImports[j].k) <= Len(probe.id)
        /\ SubSeq(probe.id, 1, Len(StoredImports[j].k)) = StoredImports[j].k }

(***************************************************************************)
(* C19.  resolve(specifier) returns imports[specifier] whenever the        *)
(* specifier is a key of imports, whatever the value stored under it, and  *)
(* before any prefix key.  The code tests the truthiness of                *)
(* imports[specifier], so a key whose value is "" or null is treated as    *)
(* missing: the call goes on to the prefix keys or returns null.           *)
(***************************************************************************)
C19_ExactMatch ==
    (probe.done /\ ExactKey)
        => /\ ~probe.thrown
           /\ probe.result = GetProp(GetProp(importMap, s_imports), probe.id)

\* The part of C19 that holds: an exact key with a non-empty string value
\* wins over every prefix key.
C19_TruthyExactMatch ==
    (probe.done /\ ExactKey
       /\ Truthy(GetProp(GetProp(importMap, s_imports), probe.id)))
        => /\ ~probe.thrown
           /\ probe.result = GetProp(GetProp(importMap, s_imports), probe.id)

\* The first prefix key in the insertion order of imports.
FirstPrefixKey == CHOOSE j \in PrefixKeys : \A i \in PrefixKeys : j <= i

C21_NullIffNoMatch ==
    (probe.done /\ ~(ExactKey /\ GetProp(GetProp(importMap, s_imports), probe.id) = JNull))
        => ((~probe.thrown /\ probe.result = JNull) <=> (~ExactKey /\ PrefixKeys = {}))

\* The part of C21 that holds: with no exact key and no prefix key the result
\* is null, as it is under the initial mapping and under imports: null.
C21_NoMatchIsNull ==
    (probe.done /\ ~ExactKey /\ PrefixKeys = {})
        => (~probe.thrown /\ probe.result = JNull)

(***************************************************************************)
(* C22.  The resolver is evaluated against the mapping stored when it is   *)
(* called, with no caching: every call of the resolution hook answers from *)
(* the mapping stored at that moment, also for a specifier it has answered *)
(* before under an earlier mapping.                                        *)
(***************************************************************************)
C22_NoCaching ==
    [][ probe' # probe
          => /\ probe'.result = resolveFromImportMap(probe'.id, importMap).v
             /\ probe'.value = resolveId(probe'.id, importMap).v
             /\ probe'.thrown = resolveId(probe'.id, importMap).thrown
             /\ importMap' = importMap ]_vars

\* "@a" was resolved to "u1" under the first mapping and is resolved to "u2"
\* after the POST of {"imports":{"@b":"u2","@a":"u2"},"scopes":{}}.
C22_Witness ==
    /\ probe.hook = "resolveId"
    /\ probe.id = << "@", "a" >>
    /\ probe.result = JStr(<< "u", "2" >>)
    /\ JStr(<< "u", "1" >>) \in externalizedModules
    /\ GetProp(GetProp(importMap, s_imports), << "@", "a" >>) = JStr(<< "u", "2" >>)

\* The hook has marked the specifier of its last call external.
MarkedExternal ==
    /\ ~probe.thrown
    /\ probe.value.t = "obj"
    /\ GetProp(probe.value, s_external) = JBool(TRUE)

(***************************************************************************)
(* C23.  The resolution hook marks every specifier that starts with '@'    *)
(* external, whether or not the resolver finds a mapping and whether or    *)
(* not a mapping has been received, and returns null for every other       *)
(* specifier.  It fails when the stored mapping holds, under a prefix key, *)
(* a value that cannot be converted to a string: value + remainder throws  *)
(* and so does the hook.  Such a value is stored only by the POST of C4.   *)
(***************************************************************************)
C23_AlwaysExternal ==
    probe.hook = "resolveId"
        => IF probe.id # <<>> /\ probe.id[1] = "@"
           THEN MarkedExternal
           ELSE ~probe.thrown /\ probe.value = JNull

\* The part of C23 that holds: the same while no POST has been answered 400
\* with its payload stored.
C23_ExternalUnlessThrown ==
    (probe.hook = "resolveId" /\ ~probe.thrown)
        => IF probe.id # <<>> /\ probe.id[1] = "@"
           THEN MarkedExternal
           ELSE probe.value = JNull

(***************************************************************************)
(* C24.  For a bare identifier the resolution hook returns the original    *)
(* identifier as the external id; the URL resolved from the stored mapping *)
(* is used for logging only and never changes the returned id.  It fails:  *)
(* the hook returns id: resolved || id, the resolved URL when there is     *)
(* one.                                                                    *)
(***************************************************************************)
C24_OriginalId ==
    (probe.hook = "resolveId" /\ probe.id # <<>> /\ probe.id[1] = "@" /\ ~probe.thrown)
        => /\ probe.value.t = "obj"
           /\ GetProp(probe.value, s_id) = JStr(probe.id)
           /\ GetProp(probe.value, s_external) = JBool(TRUE)

\* An option matches: a string by equality, a pattern by testing the
\* specifier, an array if any element matches, a function by its own result
\* on the same three arguments.
Matches(opt, source, importer, isResolved) ==
    CASE opt.k = "str" -> source = opt.s
      [] opt.k = "re" -> test(opt, source).v
      [] opt.k = "arr" ->
            \E j \in 1..Len(opt.items) :
                \/ opt.items[j].k = "str" /\ opt.items[j].s = source
                \/ opt.items[j].k = "re" /\ test(opt.items[j], source).v
      [] OTHER -> Truthy(ApplyFn(opt.f, source, importer, isResolved))

(***************************************************************************)
(* C25.  For any list of options, each a literal string, a pattern, an     *)
(* array of strings and patterns, or a predicate function, the merged      *)
(* predicate returns true for (specifier, importer, isResolved) if and     *)
(* only if at least one option matches; merge("a", /^b/) is true for "a"   *)
(* and "bxyz" and false for "c"; with no options it is always false.       *)
(***************************************************************************)
C25_MergedIffSomeMatch ==
    /\ [][ probe'.value =
              JBool(\E i \in 1..Len(options) :
                        Matches(options[i], probe'.id, probe'.importer,
                                probe'.isResolved)) ]_vars
    /\ [](probe.hook = "external"
            => /\ options = << OStr(<< "a" >>), ORe(<< "b" >>, TRUE, FALSE) >>
                    => probe.value = JBool(probe.id \in { << "a" >>, << "b", "x", "y", "z" >> })
               /\ options = <<>> => probe.value = JBool(FALSE))

\* merge("a", /^b/) has answered true for "bxyz".
C25_Witness ==
    /\ probe.hook = "external"
    /\ options = << OStr(<< "a" >>), ORe(<< "b" >>, TRUE, FALSE) >>
    /\ probe.id = << "b", "x", "y", "z" >>
    /\ probe.value = JBool(TRUE)

\* What the build external option answers for a specifier.
TreatsAsExternal(source, importer, isResolved) ==
    CASE config.external = "merged" ->
            mergeExternalOptions(<< config.existing, options.externals >>,
                                 source, importer, isResolved).v
      [] config.external = "externals" ->
            Matches(options.externals, source, importer, isResolved)
      [] config.external = "existing" ->
            Matches(config.existing, source, importer, isResolved)
      [] OTHER -> FALSE

(***************************************************************************)
(* C26.  On a build with the externals option set, the resulting build     *)
(* external option treats a specifier as external if and only if Vite's    *)
(* existing build.rollupOptions.external (if any) or the plug-in's         *)
(* externals matches it; on serve, or when externals is not set, the       *)
(* configuration hook leaves the incoming configuration unchanged.         *)
(***************************************************************************)
C26_ExternalsMerged ==
    probe.hook # "none"
        => IF config.command = "build" /\ options.externals # NoExternal
           THEN \A source \in Sources, importer \in Importers, isResolved \in BOOLEAN :
                   TreatsAsExternal(source, importer, isResolved)
                       <=> \/ /\ config.existing # NoExternal
                              /\ Matches(config.existing, source, importer, isResolved)
                           \/ Matches(options.externals, source, importer, isResolved)
           ELSE config.external = IF config.existing = NoExternal THEN "none" ELSE "existing"

\* A build where the user had externalized "a" and the plug-in's externals is
\* /^b/: the merged option has answered true for "a".
C26_Witness ==
    /\ probe.hook = "external"
    /\ config.command = "build"
    /\ config.existing = OStr(<< "a" >>)
    /\ options.externals = ORe(<< "b" >>, TRUE, FALSE)
    /\ config.external = "merged"
    /\ probe.id = << "a" >>
    /\ probe.value = JBool(TRUE)

\* The statements a text of the client script is made of.
StatementsOf(code) ==
    CHOOSE sts \in StatementLists(MaxStatements) : JoinLines(sts) = code

\* The position after the end of the last import statement, the whole
\* statement, or -1 when there is no import statement.
EndOfLastImport(sts) ==
    LET imports == { j \in 1..Len(sts) : sts[j] \in { st_import, st_import_lines } }
        last == CHOOSE j \in imports : \A i \in imports : i <= j
    IN  IF imports = {} THEN -1 ELSE Len(JoinLines(SubSeq(sts, 1, last)))

\* new is code with a text that holds the sender script spliced in at
\* position at: removing the inserted text gives back code.
SplicedAt(new, code, at) ==
    LET added == Len(new) - Len(code)
    IN  /\ added >= Len(imsScript)
        /\ SubSeq(new, 1, at) = SubSeq(code, 1, at)
        /\ Slice(new, at + added) = Slice(code, at)
        /\ Includes(SubSeq(new, at + 1, at + added), imsScript)

TransformedCode == GetProp(probe.value, << "c", "o", "d", "e" >>).s

(***************************************************************************)
(* C27.  For any source text of the bootstrap client script, the transform *)
(* output is the original text with the sender script spliced in           *)
(* immediately after the last top-level import statement (after the end of *)
(* the whole statement, also when it spans several lines), or prepended at *)
(* the very top when there is no import statement; removing the inserted   *)
(* text gives back the original text.  It fails for an import statement    *)
(* that spans several lines: the line-by-line pattern ends its match at    *)
(* the end of the statement's first line.                                  *)
(***************************************************************************)
C27_SplicedAfterLastImport ==
    (probe.hook = "transform" /\ probe.value # JNull)
        => LET pos == EndOfLastImport(StatementsOf(probe.text))
           IN  SplicedAt(TransformedCode, probe.text, IF pos = -1 THEN 0 ELSE pos)

\* The part of C27 that holds: the same when the last line that starts with
\* import is a whole import statement.
C27_OneLineImports ==
    (/\ probe.hook = "transform"
     /\ probe.value # JNull
     /\ \A j \in 1..Len(StatementsOf(probe.text)) :
           StatementsOf(probe.text)[j] = st_import_lines
               => \E i \in (j + 1)..Len(StatementsOf(probe.text)) :
                     StatementsOf(probe.text)[i] = st_import)
        => LET pos == EndOfLastImport(StatementsOf(probe.text))
           IN  SplicedAt(TransformedCode, probe.text, IF pos = -1 THEN 0 ELSE pos)

\* The transformed text always holds the original text around the sender
\* script, at the position findLastImportStatement gives.
C27_SplicedSomewhere ==
    (probe.hook = "transform" /\ probe.value # JNull)
        => \E at \in 0..Len(probe.text) : SplicedAt(TransformedCode, probe.text, at)

(***************************************************************************)
(* C28.  The code-transform hook changes exactly one file: it returns null *)
(* for every module during a build, and during serve for every module id   *)
(* other than the dev server's own bootstrap client script.  It fails for  *)
(* a module of the application whose path ends in                          *)
(* /vite/dist/client/client.mjs: the hook tests the end of the id only.    *)
(***************************************************************************)
C28_OnlyTheClient ==
    probe.hook = "transform"
        => (probe.value # JNull <=> (config.command = "serve" /\ probe.id = id_client))

\* The part of C28 that holds: null during a build and for every id that does
\* not end in /vite/dist/client/client.mjs; the client script served in
\* development receives the sender script.
C28_NullOnBuildAndOtherPaths ==
    probe.hook = "transform"
        => /\ config.command = "build" => probe.value = JNull
           /\ ~EndsWith(probe.id, s_client_suffix) => probe.value = JNull
           /\ (config.command = "serve" /\ probe.id = id_client)
                 => Includes(TransformedCode, imsScript)

\* Reading the sender script file failed while the last request was served.
ReadFailed == SeqIncludes(out.effects, "logger.error")

(***************************************************************************)
(* C29.  On a root instance, when reading the sender script file fails     *)
(* while serving the sender-script path, the response has status 500 with  *)
(* the JSON body {"error":"Failed to load sender script"}; when the read   *)
(* succeeds the response is 200 with content type application/javascript.  *)
(* It fails on a read failure: the head 200 has been written before the    *)
(* file is read, and writing the head 500 throws.                          *)
(***************************************************************************)
C29_SenderResponse ==
    (out.by = "Sender" /\ out.kind # "next")
        => IF ReadFailed
           THEN /\ out.kind = "response"
                /\ out.status = 500
                /\ out.body = << "{", "\"", "e", "r", "r", "o", "r", "\"", ":", "\"", "F", "a", "i", "l", "e", "d", " ", "t", "o", " ", "l", "o", "a", "d", " ", "s", "e", "n", "d", "e", "r", " ", "s", "c", "r", "i", "p", "t", "\"", "}" >>
           ELSE /\ out.kind = "response"
                /\ out.status = 200
                /\ << "Content-Type", "application/javascript" >> \in out.headers

\* The part of C29 that holds: the response when the read succeeds.
C29_SenderServed ==
    (out.by = "Sender" /\ out.kind # "next" /\ ~ReadFailed)
        => /\ out.kind = "response"
           /\ out.status = 200
           /\ << "Content-Type", "application/javascript" >> \in out.headers

\* The chunks reachable from the chunks of a set through imports, the chunks
\* of the set included.
RECURSIVE ReachableFrom(_)
ReachableFrom(files) ==
    LET more == files \cup { g \in DOMAIN meta.chunks :
                                \E f \in files : SeqIncludes(meta.chunks[f].imports, g) }
    IN  IF more = files THEN files ELSE ReachableFrom(more)

\* Every chunk of the build has been rendered.
AllRendered == meta.chunks # << >> /\ meta.rendered = DOMAIN meta.chunks

(***************************************************************************)
(* C30.  After the bundle hooks of the CSS plug-in have processed all      *)
(* chunks, the CSS map has one entry per entry chunk and none for the      *)
(* other chunks, and the entry of an entry chunk lists, each exactly once, *)
(* the CSS files imported by that chunk and by every chunk reachable from  *)
(* it through imports, the chunk's own CSS first; a chunk shared by two    *)
(* entry points contributes its CSS to both.                               *)
(***************************************************************************)
C30_CssMap ==
    AllRendered
        => /\ DOMAIN cssMap = { meta.chunks[f].name : f \in { g \in DOMAIN meta.chunks :
                                                                 meta.chunks[g].isEntry } }
           /\ \A f \in DOMAIN meta.chunks :
                 meta.chunks[f].isEntry
                     => LET list == cssMap[meta.chunks[f].name]
                            own == meta.chunks[f].importedCss
                        IN  /\ \A i, j \in 1..Len(list) : list[i] = list[j] => i = j
                            /\ { list[j] : j \in 1..Len(list) }
                                  = UNION { { meta.chunks[g].importedCss[j] :
                                                j \in 1..Len(meta.chunks[g].importedCss) } :
                                            g \in ReachableFrom({ f }) }
                            /\ SubSeq(list, 1, Len(own)) = own

\* Both entry points reach s.js, e1.js through e2.js only; the CSS of s.js is
\* in both entries, after the own CSS of each.
C30_Witness ==
    /\ AllRendered
    /\ meta.chunks["e2.js"].isEntry
    /\ meta.chunks["e1.js"].imports = << "e2.js", "ext" >>
    /\ meta.chunks["e2.js"].imports = << "s.js" >>
    /\ meta.chunks["e1.js"].importedCss = << "x.css" >>
    /\ meta.chunks["e2.js"].importedCss = << >>
    /\ meta.chunks["s.js"].importedCss = << "x.css", "y.css" >>
    /\ cssMap["e1"] = << "x.css", "y.css" >>
    /\ cssMap["e2"] = << "x.css", "y.css" >>

\* The files that define specifier spec, under the imports (scope = << >>) or
\* under the scope key scope.
Defining(scope, spec) ==
    { j \in 1..Len(options.importMaps) :
        LET holder == IF scope = << >> THEN GetProp(options.importMaps[j], s_imports)
                      ELSE GetProp(GetProp(options.importMaps[j], s_scopes), scope)
        IN  holder.t = "obj" /\ spec \in KeySet(holder) }

\* The value the last file that defines spec gives it.
LastDefined(scope, spec) ==
    LET last == CHOOSE j \in Defining(scope, spec) : \A i \in Defining(scope, spec) : i <= j
    IN  IF scope = << >> THEN GetProp(GetProp(options.importMaps[last], s_imports), spec)
        ELSE GetProp(GetProp(GetProp(options.importMaps[last], s_scopes), scope), spec)

\* holder holds, for the specifiers some file defines under scope, the value
\* of the last file that defines each.
MergedUnder(holder, scope) ==
    /\ holder.t = "obj"
    /\ \A i, j \in 1..Len(holder.e) : holder.e[i].k = holder.e[j].k => i = j
    /\ KeySet(holder) = { spec \in { k_a, k_b, k_c } : Defining(scope, spec) # {} }
    /\ \A spec \in KeySet(holder) : GetProp(holder, spec) = LastDefined(scope, spec)

\* The scope keys some file has.
ScopeKeys ==
    { scope \in { scope_s, scope_t } :
        \E j \in 1..Len(options.importMaps) :
            LET scopes == GetProp(options.importMaps[j], s_scopes)
            IN  scopes.t = "obj" /\ scope \in KeySet(scopes) }

IsMergeInFileOrder ==
    /\ ~probe.thrown
    /\ probe.value.t = "obj"
    /\ ObjectKeys(probe.value) = << s_imports, s_scopes >>
    /\ MergedUnder(GetProp(probe.value, s_imports), << >>)
    /\ GetProp(probe.value, s_scopes).t = "obj"
    /\ KeySet(GetProp(probe.value, s_scopes)) = ScopeKeys
    /\ \A scope \in ScopeKeys :
          MergedUnder(GetProp(GetProp(probe.value, s_scopes), scope), scope)

(***************************************************************************)
(* C31.  When several import map files are configured, the injected import *)
(* map is their merge in file order: a specifier under imports takes the   *)
(* value of the last file that defines it, the entries of the same scope   *)
(* key are merged with later files overriding earlier ones per specifier,  *)
(* and the result always has both an imports and a scopes key.  It fails   *)
(* for a file without imports: Object.keys(map.imports) throws.            *)
(***************************************************************************)
C31_MergeInFileOrder ==
    probe.hook = "transformIndexHtml" => IsMergeInFileOrder

\* The part of C31 that holds: the same when every file has imports.
C31_MergeWhenAllHaveImports ==
    (/\ probe.hook = "transformIndexHtml"
     /\ \A j \in 1..Len(options.importMaps) :
           GetProp(options.importMaps[j], s_imports) # JUndefined)
        => IsMergeInFileOrder

\* The combined import map of the page, when every script parses.
CombinedMap == extractImportMap(browser.scripts)

\* The origins the POSTs of the sender went to.
PostedOrigins == { browser.posts[j].origin : j \in 1..Len(browser.posts) }

\* The string values under imports of the combined map.
ImportTargets ==
    { GetProp(CombinedMap, s_imports).e[j].v.s :
        j \in { i \in 1..Len(GetProp(CombinedMap, s_imports).e) :
                  GetProp(CombinedMap, s_imports).e[i].v.t = "str" } }

\* scheme://host:port of an absolute URL
OriginOfUrl(url) ==
    SubSeq(url, 1, IndexOf(url, << ":", "/", "/" >>) + 3
                   + (IF IndexOf(Slice(url, IndexOf(url, << ":", "/", "/" >>) + 3), s_slash) < 0
                      THEN Len(url)
                      ELSE IndexOf(Slice(url, IndexOf(url, << ":", "/", "/" >>) + 3), s_slash)))

\* The origins of the imports targets on localhost or 127.0.0.1
LoopbackOrigins ==
    { OriginOfUrl(url) : url \in { u \in ImportTargets :
                                     /\ IndexOf(u, << ":", "/", "/" >>) >= 0
                                     /\ HostOf(u) \in { s_localhost, s_127 } } }

OnePostPerOrigin ==
    \A i, j \in 1..Len(browser.posts) :
        browser.posts[i].origin = browser.posts[j].origin => i = j

(***************************************************************************)
(* C32.  When the page has at least one parseable import map script, the   *)
(* sender posts the combined map to the page's own origin if and only if   *)
(* it runs as root, and to the origin of every imports target URL whose    *)
(* hostname is localhost or 127.0.0.1; each distinct origin receives       *)
(* exactly one POST, and nothing is sent when the set of origins is empty. *)
(* It fails for a target on 127.0.0.1: getLocalhostOrigins looks only at   *)
(* URLs that contain the text localhost.                                   *)
(***************************************************************************)
C32_PostedOrigins ==
    (browser.ran /\ CombinedMap # JNull)
        => /\ PostedOrigins = (IF browser.isRoot THEN { browser.origin } ELSE {})
                                 \cup LoopbackOrigins
           /\ OnePostPerOrigin
           /\ \A j \in 1..Len(browser.posts) :
                 /\ browser.posts[j].body = JsonStringify(CombinedMap)
                 /\ browser.posts[j].method = "POST"

\* The part of C32 that holds: the same with the targets on 127.0.0.1 whose
\* URL does not contain the text localhost left out.
C32_PostedOriginsOfLocalhostUrls ==
    (browser.ran /\ CombinedMap # JNull)
        => /\ PostedOrigins
                = (IF browser.isRoot THEN { browser.origin } ELSE {})
                  \cup { OriginOfUrl(url) :
                           url \in { u \in ImportTargets :
                                       /\ IndexOf(u, << ":", "/", "/" >>) >= 0
                                       /\ HostOf(u) \in { s_localhost, s_127 }
                                       /\ Includes(u, s_localhost) } }
           /\ OnePostPerOrigin
           /\ \A j \in 1..Len(browser.posts) :
                 /\ browser.posts[j].body = JsonStringify(CombinedMap)
                 /\ browser.posts[j].method = "POST"

\* A script whose content is not JSON (an empty script stands for {}).
Unparseable(text) == text # << >> /\ ~JsonParse(text).ok

SomeScriptUnparseable ==
    \E j \in 1..Len(browser.scripts) : Unparseable(browser.scripts[j])

\* posts' is posts with the outcomes of some fetches filled in, nothing else.
SamePostsSettling ==
    /\ Len(browser'.posts) = Len(browser.posts)
    /\ \A j \in 1..Len(browser.posts) :
          /\ browser'.posts[j].origin = browser.posts[j].origin
          /\ browser'.posts[j].url = browser.posts[j].url
          /\ browser'.posts[j].body = browser.posts[j].body
          /\ browser.posts[j].settled # "pending"
                => browser'.posts[j].settled = browser.posts[j].settled

(***************************************************************************)
(* C33.  The sender sends nothing when the document has no import map      *)
(* script, and nothing when the content of any one import map script fails *)
(* to parse as JSON: the extraction yields no map, not a partial one.  A   *)
(* failed POST to one origin does not prevent the POSTs to the others:     *)
(* all POSTs are started when the sender runs, and the outcome of one      *)
(* leaves the others as they are, free to be answered.                     *)
(***************************************************************************)
C33_NothingSentOrAllSent ==
    /\ [](browser.ran /\ (Len(browser.scripts) = 0 \/ SomeScriptUnparseable)
            => /\ browser.posts = << >>
               /\ extractImportMap(browser.scripts) = JNull)
    /\ [][browser.ran => SamePostsSettling]_vars
    /\ [](\A i, j \in 1..Len(browser.posts) :
            (i # j /\ browser.posts[i].settled = "failed"
                   /\ browser.posts[j].settled = "pending")
                => ENABLED (Settle /\ browser'.posts[j].settled # "pending"))

\* A document with a script that parses and imports from localhost, and one
\* that does not parse: the sender has run and sent nothing.
C33_Witness ==
    /\ browser.ran
    /\ browser.posts = << >>
    /\ SomeScriptUnparseable
    /\ \E j \in 1..Len(browser.scripts) :
          /\ browser.scripts[j] # << >>
          /\ JsonParse(browser.scripts[j]).ok
          /\ getLocalhostOrigins(JsonParse(browser.scripts[j]).v) # << >>

\* One POST failed and another one was answered 200.
C33_FailedAndAnswered ==
    \E i, j \in 1..Len(browser.posts) :
        browser.posts[i].settled = "failed" /\ browser.posts[j].settled = "200"

\* The POSTs of a page whose origin the receiver allows.
PostsFromAllowedOrigin ==
    IF isOriginAllowed(JStr(browser.origin), options.allowedOrigins)
    THEN 1..Len(browser.posts) ELSE {}

(***************************************************************************)
(* C34.  Every payload the sender can produce satisfies the receiver's     *)
(* shape validation: whatever the import map scripts of the page contain,  *)
(* the posted object has exactly the two top-level keys imports and        *)
(* scopes, so a POST from an allowed origin that carries a sender payload  *)
(* is never answered 400.                                                  *)
(* The shape holds, the conclusion does not: a payload of the right shape  *)
(* whose imports hold a value that cannot be turned into a string is       *)
(* answered 400 by the receiver (see C4).                                  *)
(***************************************************************************)
C34_NeverAnswered400 ==
    /\ \A j \in 1..Len(browser.posts) :
          /\ JsonParse(browser.posts[j].body).ok
          /\ ShapeOk(JsonParse(browser.posts[j].body).v)
    /\ \A j \in PostsFromAllowedOrigin : browser.posts[j].settled # "400"

\* The part of C34 that holds: every payload has exactly the keys imports
\* and scopes and passes validateIm, and a payload whose imports are all
\* strings is never answered 400 from an allowed origin.
C34_ShapeValid ==
    \A j \in 1..Len(browser.posts) :
        LET parsed == JsonParse(browser.posts[j].body)
        IN  /\ parsed.ok
            /\ ShapeOk(parsed.v)
            /\ validateIm(parsed.v)
            /\ ObjectKeys(parsed.v) = << s_imports, s_scopes >>
            /\ (/\ j \in PostsFromAllowedOrigin
                /\ \A i \in 1..Len(GetProp(parsed.v, s_imports).e) :
                      GetProp(parsed.v, s_imports).e[i].v.t = "str")
                  => browser.posts[j].settled # "400"

\* The requests the blocking middleware holds: suspended in waitAsync, or
\* with waitAsync resolved and next() still to be called.
Blocked(slots) == InPhase(slots, "waiting") + InPhase(slots, "ok") + InPhase(slots, "timed-out")

C36_UnsetMeansInitial ==
    /\ importMapReadyEvent = "Unset" => importMap = InitialImportMap
    /\ importMap # InitialImportMap => importMapReadyEvent = "Set"

\* The part of C36 that holds: the gate becomes Set only by a POST answered
\* 200, once Set the stored mapping has passed validation, and the mapping
\* changes under an Unset gate only by the POST that is answered 400 after
\* it was stored.
C36_UnlessLogThrows ==
    /\ [](importMapReadyEvent = "Set" => (ShapeOk(importMap) /\ importMap # InitialImportMap))
    /\ [][ /\ (importMapReadyEvent = "Unset" /\ importMapReadyEvent' = "Set")
               => (out'.by = "OnEnd" /\ out'.status = 200)
           /\ (importMap' # importMap /\ importMapReadyEvent' = "Unset")
               => /\ out'.by = "OnEnd"
                  /\ out'.status = 400
                  /\ out'.effects = << "store", "respond" >> ]_vars

(***************************************************************************)
(* The sender script as the browser runs it                                *)
(***************************************************************************)

\* The text of s between the first occurrence of a and the next occurrence
\* of b after it.
Between(s, a, b) ==
    LET from == IndexOf(s, a) + Len(a)
        rest == Slice(s, from)
    IN  SubSeq(rest, 1, IndexOf(rest, b))

\* The values the parameters isRoot and postEndpoint of the function in the
\* sender script have when the script runs: those of the call that closes
\* the script, and the defaults of the function for a call without
\* arguments.
senderArguments(script) ==
    LET defaults ==
            [ isRoot |-> Between(script, << "i", "s", "R", "o", "o", "t", " ", "=", " " >>,
                                 << "," >>) = s_true,
              postEndpoint |-> Between(script,
                                       << "p", "o", "s", "t", "E", "n", "d", "p", "o", "i", "n", "t",
                                          " ", "=", " ", "'" >>, << "'" >>) ]
        args == Between(script, << "}", ")", "(" >>, << ")", ";" >>)
    IN  IF args = <<>> THEN defaults
        ELSE [ isRoot |-> SubSeq(args, 1, IndexOf(args, << "," >>)) = s_true,
               postEndpoint |-> Between(args, << ",", " ", "'" >>, << "'" >>) ]

\* The sender script inside the transformed client script.
InjectedSender ==
    LET code == TransformedCode
        from == IndexOf(code, s_iife_start)
        rest == Slice(code, from)
    IN  SubSeq(rest, 1, IndexOf(rest, << ")", ";" >>) + 2)

\* The receiver is registered under importMapEndpointUrl: does a POST to
\* origin + postEndpoint reach it?
ReceiverListensOn(postEndpoint) ==
    /\ StartsWith(postEndpoint, s_slash)
    /\ RouteMatches(importMapEndpointUrl(config.base), postEndpoint)

(***************************************************************************)
(* C37.  For every configured receiver endpoint path and base, the path to *)
(* which the sender script delivered to the browser posts the mapping is   *)
(* the path on which the receiver listens, both for the script served on   *)
(* the sender-script endpoint and for the script injected into the         *)
(* bootstrap client script; the 'is root' value given to the sender equals *)
(* the instance's isRoot option.  Stated here for the injected script,     *)
(* for which it fails: transform injects the file as it is, whose call     *)
(* passes no arguments.                                                    *)
(***************************************************************************)
C37_InjectedSenderArguments ==
    (probe.hook = "transform" /\ probe.value # JNull)
        => /\ senderArguments(InjectedSender).isRoot = options.isRoot
           /\ ReceiverListensOn(senderArguments(InjectedSender).postEndpoint)
           /\ senderArguments(InjectedSender).postEndpoint = ReceiverUrl

\* What holds of the injected script: it always runs with the defaults of
\* the function, root and /__current_import_map.
C37_InjectedRunsWithDefaults ==
    (probe.hook = "transform" /\ probe.value # JNull)
        => /\ InjectedSender = imsScript
           /\ senderArguments(InjectedSender)
                 = [ isRoot |-> TRUE, postEndpoint |-> importMapEndpoint ]

\* What holds of the served script: when the file ends with the call, the
\* sender is given the isRoot option and the route of the receiver, which is
\* a path the receiver listens on unless the base is / (see C13); when a line
\* break follows the call, the file is served as it is.
C37_ServedSenderArguments ==
    (out.by = "Sender" /\ out.kind = "response" /\ out.status = 200)
        => \/ /\ out.body = imsScript \o s_newline
              /\ senderArguments(out.body)
                    = [ isRoot |-> TRUE, postEndpoint |-> importMapEndpoint ]
           \/ /\ senderArguments(out.body)
                    = [ isRoot |-> options.isRoot,
                        postEndpoint |-> importMapEndpointUrl(config.base) ]
              /\ config.base # s_slash
                    => /\ ReceiverListensOn(senderArguments(out.body).postEndpoint)
                       /\ senderArguments(out.body).postEndpoint = ReceiverUrl

\* The chunks that import the module whose id meta.chunks inherits.
ImportsInherited(files) ==
    \E g \in files : SeqIncludes(meta.chunks[g].imports, InheritedModule)

(***************************************************************************)
(* C38.  The CSS collection for an entry chunk terminates and raises no    *)
(* error for every chunk graph: graphs with cycles among chunks (including *)
(* a cycle back to the entry chunk), chunks imported along several paths,  *)
(* and imports that name chunks absent from the bundle metadata (such as   *)
(* external modules), which are skipped.                                   *)
(* It fails for an external module whose id names a member that the object *)
(* meta.chunks inherits: the lookup yields that member, not undefined, and *)
(* the loop over its imports throws.                                       *)
(***************************************************************************)
C38_NoError ==
    /\ meta.failed = {}
    /\ (meta.rendered \cup meta.failed) # DOMAIN meta.chunks => ENABLED RenderChunk

\* The part of C38 that holds: every render comes to an end, and it raises
\* an error only for an entry chunk that reaches an import of the inherited
\* name; with cycles, several paths and the other external module every
\* chunk is rendered without error.
C38_NoErrorUnlessInherited ==
    /\ (meta.rendered \cup meta.failed) # DOMAIN meta.chunks => ENABLED RenderChunk
    /\ \A f \in meta.failed :
          meta.chunks[f].isEntry /\ ImportsInherited(ReachableFrom({ f }))
    /\ \A f \in meta.rendered :
          meta.chunks[f].isEntry => ~ImportsInherited(ReachableFrom({ f }))

\* A build with a cycle through the entry chunk e1.js, s.js imported along
\* two paths and the external module ext: every chunk has been rendered.
C38_CyclesRendered ==
    /\ AllRendered
    /\ meta.chunks["e1.js"].imports = << "e2.js", "s.js", ExternalModule >>
    /\ meta.chunks["e2.js"].imports = << "e1.js", "s.js" >>
    /\ meta.chunks["s.js"].imports = << "e1.js", "e2.js" >>

====
